---- MODULE Spec2Model ----
(***************************************************************************)
(* Timer tracking subsystem of task-timer: the TasksService timer state    *)
(* machine, its in-memory activeTimers registry and the one-second         *)
(* checkActiveTimers loop (backend tasks.service.ts, registry revision).   *)
(* Time is counted in whole seconds, the unit of every Math.floor(ms/1000) *)
(* in the service.                                                         *)
(***************************************************************************)
EXTENDS Integers, Sequences, FiniteSets, TLC

\* ---------------------------------------------------------------- bounds
MaxNow == 6
MaxDuration == 3
MaxAlarm == 3
\* the interleaved specification: its horizon and its suspended calls
MaxNowAsync == 2
MaxRequests == 1
MaxCallbacks == 2
\* the horizon of the specification with record updates
MaxNowUpdate == 2
\* PATCH requests served in one behaviour
MaxUpdates == 1
\* sockets the gateway accepts in one behaviour
MaxSockets == 4
\* the horizon of the specification with a client
MaxNowClient == 3
\* HTTP requests one client has in flight at once
MaxClientCalls == 2
\* timer operations the user asks for in one behaviour
MaxIssued == 1
\* the specification with a failing repository: horizon, longest countdown
MaxNowFaulty == 2
MaxDurationFaulty == 2

\* null (a nullable column) and undefined (an optional registry field)
NULL == -1

TaskIds == {"t1"}
UserIds == {"u1", "u2"}

COUNTDOWN == "countdown"
ALARM == "alarm"
IDLE == "idle"
RUNNING == "running"
PAUSED == "paused"
COMPLETED == "completed"

TimerOperation == {"start", "stop", "pause", "resume", "reset"}

NoError == "none"
BadRequestException == "BadRequestException"
NotFoundException == "NotFoundException"

Max(a, b) == IF a >= b THEN a ELSE b

VARIABLES
  tasks,         \* the tasks table: id -> row
  activeTimers,  \* TasksService.activeTimers: id -> AtiveTimer
  now,           \* the wall clock, in seconds
  ticked,        \* whether the interval callback of this second has run
  lastOp,        \* the request or callback that ran last, and its outcome
  emitted,       \* the events handed to the EventEmitter by the last step
  completions,   \* history: timer.completed events per task since its Start
  runSecs,       \* history: seconds a task has spent Running since its Start
  inflight,      \* requests suspended at `save`: slot -> the row being saved
  completing,    \* interval callbacks suspended in completeTimer, by slot
  updating,      \* emitTimerUpdate calls suspended at their findOne
  patches,       \* history: PATCH requests served so far
  clients,       \* the sockets accepted so far: client.id -> its Socket
  userSockets,   \* EventsGateway.userSockets: userId -> client ids
  delivered,     \* the messages the last gateway handler sent, in order
  failing,       \* open sockets whose transport no longer delivers
  clientTimers,  \* TimerContext `timers`: taskId -> TimerState
  calls,         \* the client's HTTP requests in flight, by slot
  inbox,         \* socket messages on their way to the client, in order
  seen,          \* history: the messages the client has already handled
  sounds,        \* history: completion sounds played, by what caused them
  localRemainingTime,  \* TaskCard: the countdown the card displays
  issued         \* history: timer operations the user has asked for

asyncVars == <<inflight, completing, updating>>

gatewayVars == <<clients, userSockets, delivered, failing>>

clientVars == <<clientTimers, calls, inbox, seen, sounds, localRemainingTime,
                issued>>

vars == <<tasks, activeTimers, now, ticked, lastOp, emitted, completions,
          runSecs, inflight, completing, updating, patches, clients,
          userSockets, delivered, failing, clientTimers, calls, inbox, seen,
          sounds, localRemainingTime, issued>>

\* A row as tasksRepository.create + save leaves it: the column defaults of
\* the entity, and the timer configuration of the CreateTaskDto.
NewTask(u, type, duration, alarm) ==
  [ userId |-> u,
    timerType |-> type,
    timerStatus |-> IDLE,
    startedAt |-> NULL,
    pausedAt |-> NULL,
    remainingTime |-> NULL,
    alarmTime |-> alarm,
    countdownDuration |-> duration,
    isCompleted |-> FALSE ]

CountdownDurations == {NULL} \cup (0..MaxDuration)
AlarmTimes == {NULL} \cup (0..MaxAlarm)

TaskConfigs ==
  {NewTask("u1", COUNTDOWN, d, NULL) : d \in CountdownDurations}
    \cup {NewTask("u1", ALARM, NULL, a) : a \in AlarmTimes}

\* ------------------------------------------------------------ repository
\* finds the row by id alone
findOneAnyOwner(store, id, u) == id \in DOMAIN store

\* whether tasksRepository.findOne({ where: { id, userId } }) finds a row
findOneOwned(store, id, u) == id \in DOMAIN store /\ store[id].userId = u

\* tasksRepository.save(task): upsert of the whole row by primary key
save(store, id, task) ==
  [x \in DOMAIN store \cup {id} |-> IF x = id THEN task ELSE store[x]]

\* Map.delete
mapDelete(m, id) == [x \in DOMAIN m \ {id} |-> m[x]]

\* Map.set
mapSet(m, id, v) == [x \in DOMAIN m \cup {id} |-> IF x = id THEN v ELSE m[x]]

\* ---------------------------------------------------------------- events
CompletedEvent(id, u) ==
  [type |-> "timer.completed", taskId |-> id, userId |-> u,
   status |-> COMPLETED, remainingTime |-> NULL, completed |-> TRUE]

UpdateEvent(id, u, status, remaining, completed) ==
  [type |-> "timer.update", taskId |-> id, userId |-> u,
   status |-> status, remainingTime |-> remaining, completed |-> completed]

\* --------------------------------------------------------------- registry
\* `task.remainingTime || undefined`: null and 0 both become undefined
orUndefined(v) == IF v = NULL \/ v = 0 THEN NULL ELSE v

registerActiveTimer(timers, id, task) ==
  IF task.startedAt = NULL THEN timers
  ELSE mapSet(timers, id,
         [ userId |-> task.userId,
           timerType |-> task.timerType,
           startedAt |-> task.startedAt,
           pausedAt |-> task.pausedAt,
           endTime |-> IF task.timerType = ALARM THEN task.alarmTime ELSE NULL,
           remainingTime |-> IF task.timerType = COUNTDOWN
                             THEN orUndefined(task.remainingTime) ELSE NULL ])

\* The outcome of one timer operation: the error thrown (or none), the row as
\* saved, the registry and the events emitted.
Outcome(err, task, timers, events) ==
  [err |-> err, task |-> task, timers |-> timers, events |-> events]

Rejected(task, timers) == Outcome(BadRequestException, task, timers, {})

\* ------------------------------------------------------- timer operations
startTimer(id, task, timers, t) ==
  IF task.timerStatus = RUNNING THEN Rejected(task, timers)
  ELSE IF task.timerType = COUNTDOWN THEN
    IF task.countdownDuration = NULL \/ task.countdownDuration = 0
    THEN Rejected(task, timers)
    ELSE LET saved == [task EXCEPT !.startedAt = t,
                                   !.remainingTime = task.countdownDuration,
                                   !.timerStatus = RUNNING]
         IN Outcome(NoError, saved, registerActiveTimer(timers, id, saved), {})
  ELSE
    IF task.alarmTime = NULL THEN Rejected(task, timers)
    ELSE IF task.alarmTime < t THEN Rejected(task, timers)
    ELSE LET saved == [task EXCEPT !.startedAt = t, !.timerStatus = RUNNING]
         IN Outcome(NoError, saved, registerActiveTimer(timers, id, saved), {})

\* pauseTimer without its `timerStatus !== RUNNING` guard
pauseTimerAnyStatus(id, task, timers, t) ==
  IF task.timerType # COUNTDOWN THEN Rejected(task, timers)
  ELSE IF task.startedAt = NULL THEN Rejected(task, timers)
  ELSE
    LET remaining == Max(0, IF task.remainingTime # NULL
                            THEN task.remainingTime - (t - task.startedAt)
                            ELSE 0)
    IN Outcome(NoError,
               [task EXCEPT !.pausedAt = t, !.timerStatus = PAUSED,
                            !.remainingTime = remaining],
               IF id \in DOMAIN timers
               THEN [timers EXCEPT ![id].pausedAt = t,
                                   ![id].remainingTime = remaining]
               ELSE timers,
               {})

\* pauseTimer without the Math.max(0, ...) around the remaining time
pauseTimerUnclamped(id, task, timers, t) ==
  IF task.timerType # COUNTDOWN THEN Rejected(task, timers)
  ELSE IF task.timerStatus # RUNNING THEN Rejected(task, timers)
  ELSE IF task.startedAt = NULL THEN Rejected(task, timers)
  ELSE
    LET remaining == IF task.remainingTime # NULL
                     THEN task.remainingTime - (t - task.startedAt) ELSE 0
    IN Outcome(NoError,
               [task EXCEPT !.pausedAt = t, !.timerStatus = PAUSED,
                            !.remainingTime = remaining],
               IF id \in DOMAIN timers
               THEN [timers EXCEPT ![id].pausedAt = t,
                                   ![id].remainingTime = remaining]
               ELSE timers,
               {})

pauseTimer(id, task, timers, t) ==
  IF task.timerType # COUNTDOWN THEN Rejected(task, timers)
  ELSE IF task.timerStatus # RUNNING THEN Rejected(task, timers)
  ELSE IF task.startedAt = NULL THEN Rejected(task, timers)
  ELSE
    LET elapsedTime == t - task.startedAt
        remaining == Max(0, IF task.remainingTime # NULL
                            THEN task.remainingTime - elapsedTime ELSE 0)
        saved == [task EXCEPT !.pausedAt = t,
                              !.timerStatus = PAUSED,
                              !.remainingTime = remaining]
        timers2 == IF id \in DOMAIN timers
                   THEN [timers EXCEPT ![id].pausedAt = t,
                                       ![id].remainingTime = remaining]
                   ELSE timers
    IN Outcome(NoError, saved, timers2, {})

\* resumeTimer that leaves startedAt at the start of the previous period
resumeTimerKeepsStartedAt(id, task, timers, t) ==
  IF task.timerType # COUNTDOWN THEN Rejected(task, timers)
  ELSE IF task.timerStatus # PAUSED THEN Rejected(task, timers)
  ELSE Outcome(NoError,
               [task EXCEPT !.timerStatus = RUNNING, !.pausedAt = NULL],
               IF id \in DOMAIN timers
               THEN [timers EXCEPT ![id].pausedAt = NULL] ELSE timers,
               {})

resumeTimer(id, task, timers, t) ==
  IF task.timerType # COUNTDOWN THEN Rejected(task, timers)
  ELSE IF task.timerStatus # PAUSED THEN Rejected(task, timers)
  ELSE
    LET saved == [task EXCEPT !.startedAt = t,
                              !.timerStatus = RUNNING,
                              !.pausedAt = NULL]
        timers2 == IF id \in DOMAIN timers
                   THEN [timers EXCEPT ![id].startedAt = t,
                                       ![id].pausedAt = NULL]
                   ELSE timers
    IN Outcome(NoError, saved, timers2, {})

\* stopTimer that returns the timer to Idle instead of Completed
stopTimerToIdle(id, task, timers, t) ==
  IF task.timerStatus # RUNNING /\ task.timerStatus # PAUSED
  THEN Rejected(task, timers)
  ELSE Outcome(NoError,
               [task EXCEPT !.timerStatus = IDLE, !.startedAt = NULL,
                            !.pausedAt = NULL],
               mapDelete(timers, id), {})

stopTimer(id, task, timers, t) ==
  IF task.timerStatus # RUNNING /\ task.timerStatus # PAUSED
  THEN Rejected(task, timers)
  ELSE
    LET saved == [task EXCEPT !.timerStatus = COMPLETED, !.isCompleted = TRUE]
    IN Outcome(NoError, saved, mapDelete(timers, id), {CompletedEvent(id, id)})

\* resetTimer with its countdown assignment the wrong way round
resetTimerSwapped(id, task, timers, t) ==
  Outcome(NoError,
          [task EXCEPT
             !.timerStatus = IDLE, !.startedAt = NULL, !.pausedAt = NULL,
             !.countdownDuration = IF task.timerType = COUNTDOWN
                                   THEN task.remainingTime
                                   ELSE task.countdownDuration,
             !.isCompleted = FALSE],
          mapDelete(timers, id), {})

\* resetTimer without `this.activeTimers.delete(task.id)`
resetTimerKeepsEntry(id, task, timers, t) ==
  Outcome(NoError,
          [task EXCEPT
             !.timerStatus = IDLE, !.startedAt = NULL, !.pausedAt = NULL,
             !.remainingTime = IF task.timerType = COUNTDOWN
                               THEN task.countdownDuration
                               ELSE task.remainingTime,
             !.isCompleted = FALSE],
          timers, {})

resetTimer(id, task, timers, t) ==
  LET saved == [task EXCEPT
                  !.timerStatus = IDLE,
                  !.startedAt = NULL,
                  !.pausedAt = NULL,
                  !.remainingTime = IF task.timerType = COUNTDOWN
                                    THEN task.countdownDuration
                                    ELSE task.remainingTime,
                  !.isCompleted = FALSE]
  IN Outcome(NoError, saved, mapDelete(timers, id), {})

\* the switch of handleTimerOperation on the row it found
dispatch(op, id, task, timers, t) ==
  CASE op = "start" -> startTimer(id, task, timers, t)
    [] op = "stop" -> stopTimer(id, task, timers, t)
    [] op = "pause" -> pauseTimer(id, task, timers, t)
    [] op = "resume" -> resumeTimer(id, task, timers, t)
    [] op = "reset" -> resetTimer(id, task, timers, t)
    [] OTHER -> Rejected(task, timers)

NoResult == [status |-> "none", remainingTime |-> NULL, completed |-> FALSE]

\* What a request leaves behind: the error thrown (or none), the table, the
\* registry, the events emitted and the body of the response.
Reply(err, store, timers, events, result) ==
  [err |-> err, tasks |-> store, timers |-> timers, events |-> events,
   result |-> result]

handleTimerOperation(store, timers, id, u, op, t) ==
  IF ~findOneOwned(store, id, u)
  THEN Reply(NotFoundException, store, timers, {}, NoResult)
  ELSE LET r == dispatch(op, id, store[id], timers, t)
       IN IF r.err # NoError
          THEN Reply(r.err, store, timers, {}, NoResult)
          ELSE Reply(NoError, save(store, id, r.task), r.timers, r.events,
                     NoResult)

\* ---------------------------------------------------- reconciliation loop
\* the loop without its `if (timer.pausedAt) continue`
advanceTimerPausedToo(timer, t) ==
  IF timer.timerType = COUNTDOWN /\ timer.remainingTime # NULL
  THEN [timer EXCEPT !.remainingTime =
          Max(0, timer.remainingTime - (t - timer.startedAt))]
  ELSE timer

\* the countdown branch of the loop: the entry's remainingTime is overwritten
\* with the remaining time computed from it
advanceTimer(timer, t) ==
  IF timer.pausedAt = NULL /\ timer.timerType = COUNTDOWN
     /\ timer.remainingTime # NULL
  THEN [timer EXCEPT !.remainingTime =
          Max(0, timer.remainingTime - (t - timer.startedAt))]
  ELSE timer

\* the alarm test of the loop with < for <=
isDueStrict(timer, t) ==
  /\ timer.pausedAt = NULL
  /\ \/ timer.timerType = ALARM /\ timer.endTime # NULL /\ timer.endTime < t
     \/ timer.timerType = COUNTDOWN /\ timer.remainingTime = 0

\* the entry (as the loop left it) is pushed to completedTimerIds
isDue(timer, t) ==
  /\ timer.pausedAt = NULL
  /\ \/ timer.timerType = ALARM /\ timer.endTime # NULL /\ timer.endTime <= t
     \/ timer.timerType = COUNTDOWN /\ timer.remainingTime = 0

\* the loop calls emitTimerUpdate for the entry
isUpdated(timer, t) ==
  /\ timer.pausedAt = NULL
  /\ \/ timer.timerType = ALARM /\ ~(timer.endTime # NULL /\ timer.endTime <= t)
     \/ timer.timerType = COUNTDOWN /\ timer.remainingTime # NULL
          /\ timer.remainingTime # 0

\* the row completeTimer saves
completedRow(task) ==
  [task EXCEPT !.timerStatus = COMPLETED, !.isCompleted = TRUE]

\* the events of emitTimerUpdate(taskId, userId)
emitTimerUpdate(store, timers, id, u, t) ==
  IF id \notin DOMAIN store THEN {}
  ELSE
    LET task == store[id]
        remaining ==
          IF id \in DOMAIN timers /\ task.timerType = COUNTDOWN
          THEN Max(0, IF timers[id].remainingTime # NULL
                      THEN timers[id].remainingTime - (t - timers[id].startedAt)
                      ELSE 0)
          ELSE NULL
    IN {UpdateEvent(id, u, task.timerStatus,
                    IF task.timerType = COUNTDOWN THEN remaining ELSE NULL,
                    task.isCompleted)}

\* the synchronous for-loop of checkActiveTimers: the registry as it leaves
\* it, the ids it pushes to completedTimerIds, the ids it emits an update for
loopAdvanced(timers, t) == [id \in DOMAIN timers |-> advanceTimer(timers[id], t)]

loopCompleted(timers, t) ==
  {id \in DOMAIN timers : isDue(loopAdvanced(timers, t)[id], t)}

loopUpdated(timers, t) ==
  {id \in DOMAIN timers : isUpdated(loopAdvanced(timers, t)[id], t)}

\* one run of the interval callback, every completeTimer it awaits included
checkActiveTimers(store, timers, t) ==
  LET advanced == loopAdvanced(timers, t)
      found == loopCompleted(timers, t) \cap DOMAIN store
      store2 == [id \in DOMAIN store |->
                   IF id \in found THEN completedRow(store[id]) ELSE store[id]]
      timers2 == [id \in DOMAIN timers \ found |-> advanced[id]]
      updates == UNION {emitTimerUpdate(store, advanced, id, timers[id].userId, t)
                          : id \in loopUpdated(timers, t)}
      done == {CompletedEvent(id, store[id].userId) : id \in found}
  IN Reply(NoError, store2, timers2, updates \cup done, NoResult)

\* ---------------------------------------------------------- status query
checkTimerStatus(store, timers, id, u, t) ==
  IF ~findOneOwned(store, id, u)
  THEN Reply(NotFoundException, store, timers, {}, NoResult)
  ELSE
    LET task == store[id]
        live == task.timerStatus = RUNNING /\ id \in DOMAIN timers
                  /\ task.timerType = COUNTDOWN
        remainingTime ==
          IF live
          THEN Max(0, IF timers[id].remainingTime # NULL
                      THEN timers[id].remainingTime - (t - timers[id].startedAt)
                      ELSE 0)
          ELSE IF task.timerStatus = PAUSED THEN task.remainingTime
          ELSE NULL
        expired ==
          \/ live /\ remainingTime = 0
          \/ /\ task.timerStatus = RUNNING /\ ~live /\ task.timerType = ALARM
             /\ task.alarmTime # NULL /\ task.alarmTime <= t
        task2 == IF expired THEN completedRow(task) ELSE task
    IN Reply(NoError, save(store, id, task2), timers, {},
             [status |-> task2.timerStatus,
              remainingTime |-> IF task.timerType = COUNTDOWN
                                THEN remainingTime ELSE NULL,
              completed |-> task2.isCompleted])

\* ------------------------------------------------------------ the machine
Op(name, id, u, r) ==
  [op |-> name, taskId |-> id, userId |-> u, err |-> r.err, result |-> r.result]

CompletedEvents(events, id) ==
  {e \in events : e.type = "timer.completed" /\ e.taskId = id}

\* a free slot; a suspended call holds the row it read and is about to save
NoCall == [pc |-> "idle", op |-> "none", id |-> "none", u |-> "none",
           row |-> NewTask("none", "none", NULL, NULL)]

\* TimerState of the client, without startedAt and endTime
TimerState(status, remaining, completed, pending, operation, t) ==
  [status |-> status, remainingTime |-> remaining, isCompleted |-> completed,
   isPending |-> pending, pendingOperation |-> operation, lastUpdated |-> t]

NoTimerState == TimerState("none", NULL, FALSE, FALSE, "none", NULL)

\* an HTTP request of the client: what was asked, the `currentTimer` and the
\* `status` its caller closed over, and the response once the server has one
NoRequest ==
  [pc |-> "idle", op |-> "none", taskId |-> "none",
   currentTimer |-> NoTimerState, status |-> "none", err |-> NoError,
   result |-> NoResult]

Call(pc, op, id, u, row) == [pc |-> pc, op |-> op, id |-> id, u |-> u, row |-> row]

Init ==
  /\ tasks \in [TaskIds -> TaskConfigs]
  /\ activeTimers = [id \in {} |-> NULL]
  /\ now = 0
  /\ ticked = TRUE
  /\ lastOp = [op |-> "init", taskId |-> "none", userId |-> "none",
               err |-> NoError, result |-> NoResult]
  /\ emitted = {}
  /\ completions = [id \in TaskIds |-> 0]
  /\ runSecs = [id \in TaskIds |-> 0]
  /\ inflight = [k \in 1..MaxRequests |-> NoCall]
  /\ completing = [k \in 1..MaxCallbacks |-> NoCall]
  /\ updating = {}
  /\ patches = 0
  /\ clients = <<>>
  /\ userSockets = [u \in {} |-> <<>>]
  /\ delivered = <<>>
  /\ failing = {}
  /\ clientTimers = [id \in {} |-> NULL]
  /\ calls = [k \in 1..MaxClientCalls |-> NoRequest]
  /\ inbox = <<>>
  /\ seen = {}
  /\ sounds = [notification |-> 0, poll |-> 0]
  /\ localRemainingTime = NULL
  /\ issued = 0

\* a second passes; the interval callback of the new second is due
Clock(horizon) ==
  /\ ticked
  /\ now < horizon
  /\ now' = now + 1
  /\ ticked' = FALSE
  /\ runSecs' = [id \in TaskIds |->
                   IF id \in DOMAIN tasks /\ tasks[id].timerStatus = RUNNING
                   THEN runSecs[id] + 1 ELSE runSecs[id]]
  /\ lastOp' = [op |-> "clock", taskId |-> "none", userId |-> "none",
                err |-> NoError, result |-> NoResult]
  /\ emitted' = {}
  /\ UNCHANGED <<patches, gatewayVars, clientVars, tasks, activeTimers,
                 completions, asyncVars>>

AdvanceClock == Clock(MaxNow)

\* POST /tasks/timer: one timer operation request, start to finish
HandleTimerOperation(id, u, op) ==
  LET r == handleTimerOperation(tasks, activeTimers, id, u, op, now)
      started == op = "start" /\ r.err = NoError
  IN /\ tasks' = r.tasks
     /\ activeTimers' = r.timers
     /\ emitted' = r.events
     /\ lastOp' = Op(op, id, u, r)
     /\ completions' = [completions EXCEPT ![id] =
                          (IF started THEN 0 ELSE @)
                            + Cardinality(CompletedEvents(r.events, id))]
     /\ runSecs' = [runSecs EXCEPT ![id] = IF started THEN 0 ELSE @]
     /\ UNCHANGED <<patches, gatewayVars, clientVars, now, ticked, asyncVars>>

\* the setInterval callback of this second
CheckActiveTimers ==
  LET r == checkActiveTimers(tasks, activeTimers, now)
  IN /\ ~ticked
     /\ ticked' = TRUE
     /\ tasks' = r.tasks
     /\ activeTimers' = r.timers
     /\ emitted' = r.events
     /\ lastOp' = Op("tick", "none", "none", r)
     /\ completions' = [id \in TaskIds |->
                          completions[id]
                            + Cardinality(CompletedEvents(r.events, id))]
     /\ UNCHANGED <<patches, gatewayVars, clientVars, now, runSecs, asyncVars>>

\* GET /tasks/:id/timer-status
CheckTimerStatus(id, u) ==
  LET r == checkTimerStatus(tasks, activeTimers, id, u, now)
  IN /\ tasks' = r.tasks
     /\ activeTimers' = r.timers
     /\ emitted' = r.events
     /\ lastOp' = Op("status", id, u, r)
     /\ UNCHANGED <<patches, gatewayVars, clientVars, now, ticked, completions,
                    runSecs, asyncVars>>

Next ==
  \/ AdvanceClock
  \/ CheckActiveTimers
  \/ \E id \in TaskIds, u \in UserIds, op \in TimerOperation :
       HandleTimerOperation(id, u, op)
  \/ \E id \in TaskIds, u \in UserIds : CheckTimerStatus(id, u)

Spec == Init /\ [][Next]_vars

\* the interval keeps firing and the clock keeps running
SpecLive ==
  Init /\ [][Next]_vars /\ WF_vars(AdvanceClock) /\ WF_vars(CheckActiveTimers)

\* --------------------------------------------- the machine, with PATCH
\* `{ ...task, ...updateTaskDto }` for a DTO that carries one field
applyDto(task, field, value) ==
  CASE field = "timerType" -> [task EXCEPT !.timerType = value]
    [] field = "countdownDuration" -> [task EXCEPT !.countdownDuration = value]
    [] field = "alarmTime" -> [task EXCEPT !.alarmTime = value]
    [] field = "isCompleted" -> [task EXCEPT !.isCompleted = value]
    [] OTHER -> task

update(store, timers, id, u, field, value) ==
  IF ~findOneOwned(store, id, u)
  THEN Reply(NotFoundException, store, timers, {}, NoResult)
  ELSE Reply(NoError, save(store, id, applyDto(store[id], field, value)),
             timers, {}, NoResult)

\* PATCH /tasks/:id
Update(id, u, field, value) ==
  LET r == update(tasks, activeTimers, id, u, field, value)
  IN /\ tasks' = r.tasks
     /\ lastOp' = Op("update", id, u, r)
     /\ emitted' = {}
     /\ patches < MaxUpdates
     /\ patches' = patches + 1
     /\ UNCHANGED <<gatewayVars, clientVars, activeTimers, now, ticked,
                    completions, runSecs, asyncVars>>

AdvanceClockUpdate == Clock(MaxNowUpdate)

NextUpdate ==
  \/ AdvanceClockUpdate
  \/ CheckActiveTimers
  \/ \E id \in TaskIds, u \in UserIds, op \in TimerOperation :
       HandleTimerOperation(id, u, op)
  \/ \E id \in TaskIds, u \in UserIds : CheckTimerStatus(id, u)
  \/ \E id \in TaskIds, u \in UserIds, ty \in {COUNTDOWN, ALARM} :
       Update(id, u, "timerType", ty)
  \/ \E id \in TaskIds, u \in UserIds, d \in CountdownDurations :
       Update(id, u, "countdownDuration", d)
  \/ \E id \in TaskIds, u \in UserIds, a \in AlarmTimes :
       Update(id, u, "alarmTime", a)
  \/ \E id \in TaskIds, u \in UserIds, b \in BOOLEAN :
       Update(id, u, "isCompleted", b)

SpecUpdate == Init /\ [][NextUpdate]_vars

\* ------------------------------------------- the machine, await by await
\* Every `await` of the service is a point where other requests and callbacks
\* run; the requests are those of the task's owner. A call is one step up to
\* the await of its repository call and one step from there; the repository
\* call takes effect with the step that resumes.
Suspended == "suspended"

NoCallback == [pc |-> "idle", ids |-> <<>>, row |-> NoCall.row]

Orders(S) ==
  {q \in [1..Cardinality(S) -> S] :
     \A i, j \in 1..Cardinality(S) : i # j => q[i] # q[j]}

FreeSlot(slots, k) ==
  /\ slots[k].pc = "idle"
  /\ \A j \in DOMAIN slots : j < k => slots[j].pc # "idle"

\* `for (const taskId of completedTimerIds) await this.completeTimer(taskId)`:
\* a completeTimer that finds no registry entry returns at once
RECURSIVE dropReturned(_, _)
dropReturned(q, timers) ==
  IF q = <<>> THEN <<>>
  ELSE IF Head(q) \in DOMAIN timers THEN q
  ELSE dropReturned(Tail(q), timers)

nextCompletion(q, timers) ==
  LET rest == dropReturned(q, timers)
  IN IF rest = <<>> THEN NoCallback
     ELSE [pc |-> "find", ids |-> rest, row |-> NoCall.row]

InitAsync ==
  /\ Init
  /\ \A id \in TaskIds :
       \/ tasks[id].countdownDuration \in 1..MaxDuration
       \/ tasks[id].alarmTime \in 0..MaxAlarm

AdvanceClockAsync == Clock(MaxNowAsync)

\* the interval callback up to the first await of its first completeTimer
CheckActiveTimersLoop ==
  /\ ~ticked
  /\ ticked' = TRUE
  /\ activeTimers' = loopAdvanced(activeTimers, now)
  /\ updating' = updating \cup
       {[id |-> id, u |-> activeTimers[id].userId]
          : id \in loopUpdated(activeTimers, now)}
  /\ \E q \in Orders(loopCompleted(activeTimers, now)) :
       IF q = <<>> THEN UNCHANGED completing
       ELSE \E k \in DOMAIN completing :
              /\ FreeSlot(completing, k)
              /\ completing' = [completing EXCEPT
                                  ![k] = nextCompletion(q, activeTimers')]
  /\ lastOp' = [op |-> "tick", taskId |-> "none", userId |-> "none",
                err |-> NoError, result |-> NoResult]
  /\ emitted' = {}
  /\ UNCHANGED <<patches, gatewayVars, clientVars, tasks, now, completions,
                 runSecs, inflight>>

\* completeTimer resumes from `await findOne`
CompleteTimerFind(k) ==
  LET c == completing[k]
      id == Head(c.ids)
  IN /\ c.pc = "find"
     /\ completing' = [completing EXCEPT ![k] =
          IF id \in DOMAIN tasks
          THEN [pc |-> "save", ids |-> c.ids, row |-> completedRow(tasks[id])]
          ELSE nextCompletion(Tail(c.ids), activeTimers)]
     /\ lastOp' = [op |-> "completeTimer", taskId |-> id, userId |-> "none",
                   err |-> Suspended, result |-> NoResult]
     /\ emitted' = {}
     /\ UNCHANGED <<patches, gatewayVars, clientVars, tasks, activeTimers, now,
                    ticked, completions, runSecs, inflight, updating>>

\* completeTimer resumes from `await save`: registry delete and emit
CompleteTimerSave(k) ==
  LET c == completing[k]
      id == Head(c.ids)
  IN /\ c.pc = "save"
     /\ tasks' = save(tasks, id, c.row)
     /\ activeTimers' = mapDelete(activeTimers, id)
     /\ emitted' = {CompletedEvent(id, c.row.userId)}
     /\ completions' = [completions EXCEPT ![id] = @ + 1]
     /\ completing' = [completing EXCEPT ![k] =
                         nextCompletion(Tail(c.ids), activeTimers')]
     /\ lastOp' = [op |-> "completeTimer", taskId |-> id, userId |-> "none",
                   err |-> NoError, result |-> NoResult]
     /\ UNCHANGED <<patches, gatewayVars, clientVars, now, ticked, runSecs,
                    inflight, updating>>

\* emitTimerUpdate resumes from `await findOne`
EmitTimerUpdate(p) ==
  /\ p \in updating
  /\ updating' = updating \ {p}
  /\ emitted' = emitTimerUpdate(tasks, activeTimers, p.id, p.u, now)
  /\ lastOp' = [op |-> "emitTimerUpdate", taskId |-> p.id, userId |-> p.u,
                err |-> NoError, result |-> NoResult]
  /\ UNCHANGED <<patches, gatewayVars, clientVars, tasks, activeTimers, now,
                 ticked, completions, runSecs, inflight, completing>>

\* handleTimerOperation from its findOne to the `save` call of the operation:
\* startTimer awaits the save before it registers the timer; the other four
\* update the registry (and stopTimer emits) before the save has resolved
HandleTimerOperationRead(id, u, op) ==
  IF ~findOneOwned(tasks, id, u)
  THEN /\ lastOp' = [op |-> op, taskId |-> id, userId |-> u,
                     err |-> NotFoundException, result |-> NoResult]
       /\ emitted' = {}
       /\ UNCHANGED <<patches, gatewayVars, clientVars, tasks, activeTimers,
                      now, ticked, completions, runSecs, asyncVars>>
  ELSE
    LET r == dispatch(op, id, tasks[id], activeTimers, now)
    IN IF r.err # NoError
       THEN /\ lastOp' = [op |-> op, taskId |-> id, userId |-> u,
                          err |-> r.err, result |-> NoResult]
            /\ emitted' = {}
            /\ UNCHANGED <<patches, gatewayVars, clientVars, tasks,
                           activeTimers, now, ticked, completions, runSecs,
                           asyncVars>>
       ELSE \E k \in DOMAIN inflight :
              /\ FreeSlot(inflight, k)
              /\ inflight' = [inflight EXCEPT
                                ![k] = Call("save", op, id, u, r.task)]
              /\ activeTimers' = IF op = "start" THEN activeTimers ELSE r.timers
              /\ emitted' = r.events
              /\ completions' = [completions EXCEPT ![id] =
                                   @ + Cardinality(CompletedEvents(r.events, id))]
              /\ lastOp' = [op |-> op, taskId |-> id, userId |-> u,
                            err |-> Suspended, result |-> NoResult]
              /\ UNCHANGED <<patches, gatewayVars, clientVars, tasks, now,
                             ticked, runSecs, completing, updating>>

\* the save of a timer operation resolves, and the request returns
HandleTimerOperationSave(k) ==
  LET c == inflight[k]
  IN /\ c.pc = "save"
     /\ c.op \in TimerOperation
     /\ tasks' = save(tasks, c.id, c.row)
     /\ activeTimers' = IF c.op = "start"
                        THEN registerActiveTimer(activeTimers, c.id, c.row)
                        ELSE activeTimers
     /\ completions' = [completions EXCEPT ![c.id] = IF c.op = "start" THEN 0 ELSE @]
     /\ runSecs' = [runSecs EXCEPT ![c.id] = IF c.op = "start" THEN 0 ELSE @]
     /\ inflight' = [inflight EXCEPT ![k] = NoCall]
     /\ lastOp' = [op |-> c.op, taskId |-> c.id, userId |-> c.u,
                   err |-> NoError, result |-> NoResult]
     /\ emitted' = {}
     /\ UNCHANGED <<patches, gatewayVars, clientVars, now, ticked, completing,
                    updating>>

\* checkTimerStatus from its findOne to its return, or to the `await save` of
\* a timer it found expired
CheckTimerStatusRead(id, u) ==
  LET r == checkTimerStatus(tasks, activeTimers, id, u, now)
  IN /\ emitted' = {}
     /\ IF r.tasks = tasks
        THEN /\ lastOp' = Op("status", id, u, r)
             /\ UNCHANGED inflight
        ELSE \E k \in DOMAIN inflight :
               /\ FreeSlot(inflight, k)
               /\ inflight' = [inflight EXCEPT
                                 ![k] = Call("save", "status", id, u, r.tasks[id])]
               /\ lastOp' = [op |-> "status", taskId |-> id, userId |-> u,
                             err |-> Suspended, result |-> r.result]
     /\ UNCHANGED <<patches, gatewayVars, clientVars, tasks, activeTimers, now,
                    ticked, completions, runSecs, completing, updating>>

\* the save of checkTimerStatus resolves, and the query returns
CheckTimerStatusSave(k) ==
  LET c == inflight[k]
  IN /\ c.pc = "save"
     /\ c.op = "status"
     /\ tasks' = save(tasks, c.id, c.row)
     /\ inflight' = [inflight EXCEPT ![k] = NoCall]
     /\ lastOp' = [op |-> "status", taskId |-> c.id, userId |-> c.u,
                   err |-> NoError,
                   result |-> [status |-> c.row.timerStatus,
                               remainingTime |-> IF c.row.timerType = COUNTDOWN
                                                 THEN 0 ELSE NULL,
                               completed |-> c.row.isCompleted]]
     /\ emitted' = {}
     /\ UNCHANGED <<patches, gatewayVars, clientVars, activeTimers, now,
                    ticked, completions, runSecs, completing, updating>>

NextAsync ==
  \/ AdvanceClockAsync
  \/ CheckActiveTimersLoop
  \/ \E k \in 1..MaxCallbacks : CompleteTimerFind(k)
  \/ \E k \in 1..MaxCallbacks : CompleteTimerSave(k)
  \/ \E p \in updating : EmitTimerUpdate(p)
  \/ \E id \in DOMAIN tasks, op \in TimerOperation :
       HandleTimerOperationRead(id, tasks[id].userId, op)
  \/ \E k \in 1..MaxRequests : HandleTimerOperationSave(k)
  \/ \E id \in DOMAIN tasks : CheckTimerStatusRead(id, tasks[id].userId)
  \/ \E k \in 1..MaxRequests : CheckTimerStatusSave(k)

SpecAsync == InitAsync /\ [][NextAsync]_vars

\* ------------------------------------------------------- the events gateway
\* `client.handshake.query.token`: absent, or a string that jwtService.verify
\* accepts (and decodes to its `sub`) or throws on
Tokens ==
  {[present |-> FALSE, valid |-> FALSE, sub |-> "none"]} \cup
  {[present |-> TRUE, valid |-> v, sub |-> u] : v \in BOOLEAN, u \in UserIds}

\* ClientWithUserId; an unauthenticated client has no userId
Socket(u, connected) == [userId |-> u, connected |-> connected]

\* `this.userSockets.get(userId) || []`
socketIdsOf(sockets, u) == IF u \in DOMAIN sockets THEN sockets[u] ELSE <<>>

\* `{ ...update, taskId }`
withTaskId(timerUpdate, id) ==
  [f \in DOMAIN timerUpdate \cup {"taskId"} |->
     IF f = "taskId" THEN id ELSE timerUpdate[f]]

\* delivers to every socket id of every user
sendTimerUpdateToAll(sockets, u, id, timerUpdate) ==
  LET RECURSIVE all(_)
      all(us) == IF us = {} THEN <<>>
                 ELSE LET x == CHOOSE y \in us : TRUE
                      IN sockets[x] \o all(us \ {x})
      socketIds == all(DOMAIN sockets)
  IN [i \in 1..Len(socketIds) |->
        [to |-> socketIds[i], event |-> "timer:update",
         data |-> withTaskId(timerUpdate, id)]]

\* gives up at the first socket id whose transport fails
sendTimerUpdateUntilFailure(sockets, u, id, timerUpdate) ==
  LET socketIds == socketIdsOf(sockets, u)
      reached == {n \in 0..Len(socketIds) :
                    \A i \in 1..n : socketIds[i] \notin failing}
      last == CHOOSE n \in reached : \A k \in reached : k <= n
  IN [i \in 1..last |->
        [to |-> socketIds[i], event |-> "timer:update",
         data |-> withTaskId(timerUpdate, id)]]

sendTimerUpdateToUser(sockets, u, id, timerUpdate) ==
  LET socketIds == socketIdsOf(sockets, u)
  IN [i \in 1..Len(socketIds) |->
        [to |-> socketIds[i], event |-> "timer:update",
         data |-> withTaskId(timerUpdate, id)]]

sendNotificationToUser(sockets, u, notification) ==
  LET socketIds == socketIdsOf(sockets, u)
  IN [i \in 1..Len(socketIds) |->
        [to |-> socketIds[i], event |-> "notification",
         data |-> notification]]

\* the two sends of the 'timer.completed' listener, in order
handleTimerCompletedEvent(sockets, payload) ==
  sendTimerUpdateToUser(sockets, payload.userId, payload.taskId,
                        [taskId |-> payload.taskId, status |-> "COMPLETED",
                         completed |-> TRUE])
  \o sendNotificationToUser(sockets, payload.userId,
                            [type |-> "TIMER_COMPLETED",
                             taskId |-> payload.taskId])

handleTimerUpdateEvent(sockets, payload) ==
  sendTimerUpdateToUser(sockets, payload.userId, payload.taskId, payload.update)

\* registers the socket under the token's `sub` without verifying the token
handleConnectionUnverified(sockets, cid, token) ==
  IF ~token.present THEN sockets
  ELSE mapSet(sockets, token.sub, Append(socketIdsOf(sockets, token.sub), cid))

\* userSockets after handleConnection of client cid
handleConnection(sockets, cid, token) ==
  IF ~token.present \/ ~token.valid THEN sockets
  ELSE mapSet(sockets, token.sub, Append(socketIdsOf(sockets, token.sub), cid))

\* keeps a user with no socket ids in the map
handleDisconnectKeepsUser(sockets, cid, client) ==
  IF client.userId = "none" THEN sockets
  ELSE mapSet(sockets, client.userId,
              SelectSeq(socketIdsOf(sockets, client.userId),
                        LAMBDA id : id # cid))

\* userSockets after handleDisconnect of client cid
handleDisconnect(sockets, cid, client) ==
  IF client.userId = "none" THEN sockets
  ELSE LET updateSocketIds ==
             SelectSeq(socketIdsOf(sockets, client.userId),
                       LAMBDA id : id # cid)
       IN IF Len(updateSocketIds) > 0
          THEN mapSet(sockets, client.userId, updateSocketIds)
          ELSE mapDelete(sockets, client.userId)

\* the userId an event may carry: stopTimer publishes the task's id there
EventUserIds == UserIds \cup TaskIds

GatewayOp(name, id, u) ==
  [op |-> name, taskId |-> id, userId |-> u, err |-> NoError,
   result |-> NoResult]

timerVars == <<tasks, activeTimers, now, ticked, emitted, completions, runSecs,
               asyncVars, patches>>

\* a socket connects; socket.io numbers it
HandleConnection(token) ==
  LET cid == Len(clients) + 1
      authenticated == token.present /\ token.valid
  IN /\ Len(clients) < MaxSockets
     /\ clients' = Append(clients,
                          IF authenticated THEN Socket(token.sub, TRUE)
                          ELSE Socket("none", FALSE))
     /\ userSockets' = handleConnection(userSockets, cid, token)
     /\ delivered' = <<>>
     /\ lastOp' = GatewayOp("connect", "none", token.sub)
     /\ UNCHANGED <<timerVars, clientVars, failing>>

\* a connected socket closes
HandleDisconnect(cid) ==
  /\ cid \in DOMAIN clients
  /\ clients[cid].connected
  /\ clients' = [clients EXCEPT ![cid].connected = FALSE]
  /\ userSockets' = handleDisconnect(userSockets, cid, clients[cid])
  /\ delivered' = <<>>
  /\ failing' = failing \ {cid}
  /\ lastOp' = GatewayOp("disconnect", "none", clients[cid].userId)
  /\ UNCHANGED <<timerVars, clientVars>>

\* @OnEvent('timer.update')
HandleTimerUpdateEvent(payload) ==
  /\ delivered' = handleTimerUpdateEvent(userSockets, payload)
  /\ lastOp' = GatewayOp("timer.update", payload.taskId, payload.userId)
  /\ UNCHANGED <<timerVars, clientVars, clients, userSockets, failing>>

\* @OnEvent('timer.completed')
HandleTimerCompletedEvent(payload) ==
  /\ delivered' = handleTimerCompletedEvent(userSockets, payload)
  /\ lastOp' = GatewayOp("timer.completed", payload.taskId, payload.userId)
  /\ UNCHANGED <<timerVars, clientVars, clients, userSockets, failing>>

InitGateway ==
  /\ Init
  /\ tasks = [id \in TaskIds |-> NewTask("u1", COUNTDOWN, 1, NULL)]

NextGateway ==
  \/ \E token \in Tokens : HandleConnection(token)
  \/ \E cid \in 1..MaxSockets : HandleDisconnect(cid)
  \/ \E u \in EventUserIds, id \in TaskIds, status \in {RUNNING, PAUSED},
        remaining \in {NULL, 1} :
       HandleTimerUpdateEvent(
         [userId |-> u, taskId |-> id,
          update |-> [status |-> status, remainingTime |-> remaining,
                      completed |-> FALSE]])
  \/ \E u \in EventUserIds, id \in TaskIds :
       HandleTimerCompletedEvent([userId |-> u, taskId |-> id])

SpecGateway == InitGateway /\ [][NextGateway]_vars

\* the transport of an open socket stops delivering; server.to(id).emit() does
\* not report it, and the gateway learns of it with the disconnect
TransportFails(cid) ==
  /\ cid \in DOMAIN clients
  /\ clients[cid].connected
  /\ cid \notin failing
  /\ failing' = failing \cup {cid}
  /\ delivered' = <<>>
  /\ lastOp' = GatewayOp("transport", "none", clients[cid].userId)
  /\ UNCHANGED <<timerVars, clientVars, clients, userSockets>>

NextDelivery ==
  \/ \E token \in Tokens : HandleConnection(token)
  \/ \E cid \in 1..MaxSockets : HandleDisconnect(cid)
  \/ \E cid \in 1..MaxSockets : TransportFails(cid)
  \/ \E u \in EventUserIds, id \in TaskIds, status \in {RUNNING, PAUSED} :
       HandleTimerUpdateEvent(
         [userId |-> u, taskId |-> id,
          update |-> [status |-> status, remainingTime |-> 1,
                      completed |-> FALSE]])
  \/ \E u \in EventUserIds, id \in TaskIds :
       HandleTimerCompletedEvent([userId |-> u, taskId |-> id])

SpecDelivery == InitGateway /\ [][NextDelivery]_vars

\* ------------------------------------------------------------- the client
\* One browser of u1, with one socket, showing the card of one task.
ClientUser == "u1"

\* the task whose card is on the page
CardTask == "t1"

NetworkError == "NetworkError"

mapOperationToStatus(operation) ==
  CASE operation = "start" -> RUNNING
    [] operation = "pause" -> PAUSED
    [] operation = "resume" -> RUNNING
    [] operation = "stop" -> COMPLETED
    [] operation = "reset" -> IDLE
    [] OTHER -> IDLE

\* a field of a message that may be missing (undefined)
field(data, f) == IF f \in DOMAIN data THEN data[f] ELSE NULL

\* getAllTasks of the user, then initializeTimers
initializeTimers(store, u, t) ==
  [id \in {x \in DOMAIN store : store[x].userId = u} |->
     TimerState(store[id].timerStatus,
                IF store[id].timerType = COUNTDOWN
                THEN store[id].remainingTime ELSE NULL,
                store[id].isCompleted, FALSE, "none", t)]

\* applies the update twice over
handleTimerUpdateStacking(prevTimers, data, t) ==
  IF data.taskId \in DOMAIN prevTimers
  THEN mapSet(prevTimers, data.taskId,
              [prevTimers[data.taskId] EXCEPT
                 !.status = data.status,
                 !.remainingTime = IF @ = NULL THEN field(data, "remainingTime")
                                   ELSE Max(0, @ - 1),
                 !.isCompleted = data.completed,
                 !.lastUpdated = t,
                 !.isPending = FALSE,
                 !.pendingOperation = "none"])
  ELSE mapSet(prevTimers, data.taskId,
              TimerState(data.status, field(data, "remainingTime"),
                         data.completed, FALSE, "none", t))

\* the 'timer:update' listener
handleTimerUpdate(prevTimers, data, t) ==
  IF data.taskId \in DOMAIN prevTimers
  THEN
    LET existingTimer == prevTimers[data.taskId]
        \* `new Date(data.lastUpdated) > existingTimer.lastUpdated`: an
        \* Invalid Date, and so false, for a message without lastUpdated
        newer == /\ "lastUpdated" \in DOMAIN data
                 /\ data.lastUpdated > existingTimer.lastUpdated
        mismatch == /\ existingTimer.isPending
                    /\ existingTimer.pendingOperation # "none"
                    /\ mapOperationToStatus(existingTimer.pendingOperation)
                         # data.status
    IN IF ~existingTimer.isPending \/ newer
       THEN mapSet(prevTimers, data.taskId,
                   [existingTimer EXCEPT
                      !.status = data.status,
                      !.remainingTime = field(data, "remainingTime"),
                      !.isCompleted = data.completed,
                      !.lastUpdated = t,
                      !.isPending = IF mismatch THEN @ ELSE FALSE,
                      !.pendingOperation = IF mismatch THEN @ ELSE "none"])
       ELSE prevTimers
  ELSE mapSet(prevTimers, data.taskId,
              TimerState(data.status, field(data, "remainingTime"),
                         data.completed, FALSE, "none", t))

\* whether handleTimerUpdate replaces the entry (a new object for the card)
replacesEntry(prevTimers, data) ==
  \/ data.taskId \notin DOMAIN prevTimers
  \/ ~prevTimers[data.taskId].isPending
  \/ /\ "lastUpdated" \in DOMAIN data
     /\ data.lastUpdated > prevTimers[data.taskId].lastUpdated

\* the 'notification' listener: the cache after it
handleNotification(prevTimers, data, t) ==
  IF data.type = "TIMER_COMPLETED" /\ data.taskId \in DOMAIN prevTimers
  THEN mapSet(prevTimers, data.taskId,
              [prevTimers[data.taskId] EXCEPT
                 !.status = COMPLETED, !.isCompleted = TRUE,
                 !.lastUpdated = t, !.isPending = FALSE,
                 !.pendingOperation = "none"])
  ELSE prevTimers

\* performTimerOperation: the optimistic update
optimistic(prevTimers, taskId, operation, t) ==
  IF taskId \in DOMAIN prevTimers
  THEN mapSet(prevTimers, taskId,
              [prevTimers[taskId] EXCEPT
                 !.status = mapOperationToStatus(operation),
                 !.lastUpdated = t,
                 !.isPending = TRUE,
                 !.pendingOperation = operation,
                 !.isCompleted = IF operation = "stop" THEN TRUE
                                 ELSE IF operation = "reset" THEN FALSE
                                 ELSE @])
  ELSE prevTimers

\* puts the snapshot back whether or not the entry is still pending
rollbackAlways(prevTimers, taskId, currentTimer) ==
  IF taskId \in DOMAIN prevTimers
  THEN mapSet(prevTimers, taskId,
              [currentTimer EXCEPT !.isPending = FALSE,
                                   !.pendingOperation = "none"])
  ELSE prevTimers

\* performTimerOperation: the rollback of its catch block
rollback(prevTimers, taskId, currentTimer) ==
  IF taskId \in DOMAIN prevTimers /\ prevTimers[taskId].isPending
  THEN mapSet(prevTimers, taskId,
              [currentTimer EXCEPT !.isPending = FALSE,
                                   !.pendingOperation = "none"])
  ELSE prevTimers

\* TaskCard: `timerState?.status || task.timerStatus`
cardStatus(prevTimers, store, id) ==
  IF id \in DOMAIN prevTimers THEN prevTimers[id].status
  ELSE store[id].timerStatus

\* TaskCard.renderTimerControls: the buttons that are shown and enabled
offered(prevTimers, store, id) ==
  LET status == cardStatus(prevTimers, store, id)
      isPending == id \in DOMAIN prevTimers /\ prevTimers[id].isPending
  IN IF isPending THEN {}
     ELSE CASE status = IDLE -> {"start"}
            [] status = RUNNING ->
                 IF store[id].timerType = ALARM THEN {"stop"}
                 ELSE {"pause", "stop"}
            [] status = PAUSED -> {"resume", "stop"}
            [] status = COMPLETED -> {"reset"}
            [] OTHER -> {}

\* TaskCard: the effect on [timerState] copies a defined remainingTime
shown(local, prevTimers, id, replaced) ==
  IF replaced /\ id \in DOMAIN prevTimers
     /\ prevTimers[id].remainingTime # NULL
  THEN prevTimers[id].remainingTime
  ELSE local

\* the updater both intervals of the card queue each second
localTick(prev) == IF prev = NULL \/ prev <= 0 THEN 0 ELSE prev - 1

\* the events of one service step as the messages the gateway sends for them
RECURSIVE gatewaySends(_, _)
gatewaySends(sockets, events) ==
  IF events = {} THEN <<>>
  ELSE LET e == CHOOSE x \in events : TRUE
           payload == [userId |-> e.userId, taskId |-> e.taskId,
                       update |-> [taskId |-> e.taskId, status |-> e.status,
                                   remainingTime |-> e.remainingTime,
                                   completed |-> e.completed]]
       IN (IF e.type = "timer.completed"
           THEN handleTimerCompletedEvent(sockets, payload)
           ELSE handleTimerUpdateEvent(sockets, payload))
          \o gatewaySends(sockets, events \ {e})

\* takes the card's own zero for the completion
completionDueAtZero(response, status) == TRUE

\* checkServerStatus: whether it calls handleTimerCompletion
completionDue(response, status) ==
  response.status # status /\ response.status = COMPLETED

FreeRequest(k) == calls[k].pc = "idle"

ClientOp(name, id) ==
  [op |-> name, taskId |-> id, userId |-> ClientUser, err |-> NoError,
   result |-> NoResult]

\* the tasks the page starts from: idle ones, and a countdown of two seconds
\* that was started before the page was opened
ClientStart ==
  {[task |-> NewTask(ClientUser, COUNTDOWN, d, NULL),
    timers |-> [id \in {} |-> NULL]] : d \in 1..2}
  \cup {[task |-> NewTask(ClientUser, ALARM, NULL, 2),
         timers |-> [id \in {} |-> NULL]]}
  \cup {LET r == startTimer("t1", NewTask(ClientUser, COUNTDOWN, 2, NULL),
                            [id \in {} |-> NULL], 0)
        IN [task |-> r.task, timers |-> r.timers]}

\* the page has mounted, its socket is registered and its first refreshTimers
\* is in flight
InitClient ==
  /\ \E c \in ClientStart :
       /\ tasks = [id \in TaskIds |-> c.task]
       /\ activeTimers = c.timers
       /\ localRemainingTime = c.task.remainingTime
  /\ now = 0
  /\ ticked = TRUE
  /\ lastOp = ClientOp("mount", "none")
  /\ emitted = {}
  /\ completions = [id \in TaskIds |-> 0]
  /\ runSecs = [id \in TaskIds |-> 0]
  /\ inflight = [k \in 1..MaxRequests |-> NoCall]
  /\ completing = [k \in 1..MaxCallbacks |-> NoCall]
  /\ updating = {}
  /\ patches = 0
  /\ clients = <<Socket(ClientUser, TRUE)>>
  /\ userSockets = [u \in {ClientUser} |-> <<1>>]
  /\ delivered = <<>>
  /\ failing = {}
  /\ clientTimers = [id \in {} |-> NoTimerState]
  /\ calls = [k \in 1..MaxClientCalls |->
                IF k = 1 THEN [NoRequest EXCEPT !.pc = "sent", !.op = "refresh"]
                ELSE NoRequest]
  /\ inbox = <<>>
  /\ seen = {}
  /\ sounds = [notification |-> 0, poll |-> 0]
  /\ issued = 0

ClientClock == Clock(MaxNowClient)

\* the interval callback, the gateway's sends included
ClientTick ==
  LET r == checkActiveTimers(tasks, activeTimers, now)
  IN /\ ~ticked
     /\ ticked' = TRUE
     /\ tasks' = r.tasks
     /\ activeTimers' = r.timers
     /\ emitted' = r.events
     /\ lastOp' = Op("tick", "none", "none", r)
     /\ completions' = [id \in TaskIds |->
                          completions[id]
                            + Cardinality(CompletedEvents(r.events, id))]
     /\ delivered' = gatewaySends(userSockets, r.events)
     /\ inbox' = inbox \o delivered'
     /\ UNCHANGED <<now, runSecs, asyncVars, patches, clients, userSockets,
                    failing, clientTimers, calls, seen, sounds,
                    localRemainingTime, issued>>

\* the user presses a button of the card: the optimistic update and the POST
PerformTimerOperation(id, operation) ==
  /\ id \in DOMAIN clientTimers
  /\ operation \in offered(clientTimers, tasks, id)
  /\ issued < MaxIssued
  /\ \E k \in DOMAIN calls :
       /\ FreeRequest(k)
       /\ calls' = [calls EXCEPT ![k] =
            [NoRequest EXCEPT !.pc = "sent", !.op = operation, !.taskId = id,
                              !.currentTimer = clientTimers[id]]]
  /\ clientTimers' = optimistic(clientTimers, id, operation, now)
  /\ localRemainingTime' = shown(localRemainingTime, clientTimers', id, TRUE)
  /\ issued' = issued + 1
  /\ lastOp' = ClientOp("performTimerOperation", id)
  /\ UNCHANGED <<tasks, activeTimers, now, ticked, emitted, completions,
                 runSecs, asyncVars, patches, gatewayVars, inbox, seen, sounds>>

\* the service handles a POST of the client, the gateway's sends included
ServeTimerOperation(k) ==
  LET c == calls[k]
      r == handleTimerOperation(tasks, activeTimers, c.taskId, ClientUser,
                                c.op, now)
      started == c.op = "start" /\ r.err = NoError
  IN /\ c.pc = "sent"
     /\ c.op \in TimerOperation
     /\ tasks' = r.tasks
     /\ activeTimers' = r.timers
     /\ emitted' = r.events
     /\ lastOp' = Op(c.op, c.taskId, ClientUser, r)
     /\ completions' = [completions EXCEPT ![c.taskId] =
                          (IF started THEN 0 ELSE @)
                            + Cardinality(CompletedEvents(r.events, c.taskId))]
     /\ runSecs' = [runSecs EXCEPT ![c.taskId] = IF started THEN 0 ELSE @]
     /\ delivered' = gatewaySends(userSockets, r.events)
     /\ inbox' = inbox \o delivered'
     /\ calls' = [calls EXCEPT ![k].pc = "answered", ![k].err = r.err]
     /\ UNCHANGED <<now, ticked, asyncVars, patches, clients, userSockets,
                    failing, clientTimers, seen, sounds, localRemainingTime,
                    issued>>

\* a request of the client never reaches the service
RequestFails(k) ==
  /\ calls[k].pc = "sent"
  /\ calls[k].op # "refresh"
  /\ calls' = [calls EXCEPT ![k].pc = "answered", ![k].err = NetworkError]
  /\ lastOp' = ClientOp("networkError", calls[k].taskId)
  /\ UNCHANGED <<tasks, activeTimers, now, ticked, emitted, completions,
                 runSecs, asyncVars, patches, gatewayVars, clientTimers, inbox,
                 seen, sounds, localRemainingTime, issued>>

\* performTimerOperation resumes from its await: nothing on success, the
\* rollback and a refreshTimers on failure
PerformTimerOperationReturns(k) ==
  LET c == calls[k]
  IN /\ c.pc = "answered"
     /\ c.op \in TimerOperation
     /\ IF c.err = NoError
        THEN /\ calls' = [calls EXCEPT ![k] = NoRequest]
             /\ lastOp' = ClientOp("operationSucceeded", c.taskId)
             /\ UNCHANGED <<clientTimers, localRemainingTime>>
        ELSE /\ clientTimers' = rollback(clientTimers, c.taskId, c.currentTimer)
             /\ localRemainingTime' =
                  shown(localRemainingTime, clientTimers', c.taskId,
                        clientTimers' # clientTimers)
             /\ calls' = [calls EXCEPT ![k] =
                  [NoRequest EXCEPT !.pc = "sent", !.op = "refresh"]]
             /\ lastOp' = ClientOp("operationFailed", c.taskId)
     /\ UNCHANGED <<tasks, activeTimers, now, ticked, emitted, completions,
                    runSecs, asyncVars, patches, gatewayVars, inbox, seen,
                    sounds, issued>>

\* refreshTimers resumes with the user's tasks
RefreshTimersReturns(k) ==
  /\ calls[k].pc = "sent"
  /\ calls[k].op = "refresh"
  /\ clientTimers' = initializeTimers(tasks, ClientUser, now)
  /\ localRemainingTime' =
       IF CardTask \in DOMAIN clientTimers'
          /\ tasks[CardTask].timerType = COUNTDOWN
       THEN clientTimers'[CardTask].remainingTime
       ELSE localRemainingTime
  /\ calls' = [calls EXCEPT ![k] = NoRequest]
  /\ lastOp' = ClientOp("refreshTimers", "none")
  /\ UNCHANGED <<tasks, activeTimers, now, ticked, emitted, completions,
                 runSecs, asyncVars, patches, gatewayVars, inbox, seen, sounds,
                 issued>>

\* the socket hands the next message to its listener
Receive ==
  /\ inbox # <<>>
  /\ LET m == Head(inbox)
     IN /\ IF m.event = "timer:update"
           THEN /\ clientTimers' = handleTimerUpdate(clientTimers, m.data, now)
                /\ localRemainingTime' =
                     shown(localRemainingTime, clientTimers', m.data.taskId,
                           replacesEntry(clientTimers, m.data))
                /\ UNCHANGED sounds
                /\ lastOp' = ClientOp("handleTimerUpdate", m.data.taskId)
           ELSE /\ clientTimers' = handleNotification(clientTimers, m.data, now)
                /\ localRemainingTime' =
                     shown(localRemainingTime, clientTimers', m.data.taskId,
                           m.data.taskId \in DOMAIN clientTimers)
                /\ sounds' = [sounds EXCEPT !.notification =
                                IF m.data.type = "TIMER_COMPLETED"
                                THEN @ + 1 ELSE @]
                /\ lastOp' = ClientOp("handleNotification", m.data.taskId)
        /\ seen' = seen \cup {m}
  /\ inbox' = Tail(inbox)
  /\ UNCHANGED <<tasks, activeTimers, now, ticked, emitted, completions,
                 runSecs, asyncVars, patches, gatewayVars, calls, issued>>

\* a second of the card. Its two intervals are due together: either both
\* fire before the card renders again, and the second updater, finding the
\* countdown at zero, calls checkServerStatus; or the render that follows the
\* first clears the second before it fires
LocalTick(id, both) ==
  LET first == localTick(localRemainingTime)
      polls == both /\ first <= 0
  IN /\ tasks[id].timerType = COUNTDOWN
     /\ cardStatus(clientTimers, tasks, id) = RUNNING
     /\ localRemainingTime # NULL
     /\ localRemainingTime > 0
     /\ localRemainingTime' = IF both THEN localTick(first) ELSE first
     /\ IF polls
        THEN \E k \in DOMAIN calls :
               /\ FreeRequest(k)
               /\ calls' = [calls EXCEPT ![k] =
                    [NoRequest EXCEPT
                       !.pc = "sent", !.op = "status", !.taskId = id,
                       !.status = cardStatus(clientTimers, tasks, id)]]
        ELSE UNCHANGED calls
     /\ lastOp' = ClientOp("localTick", id)
     /\ UNCHANGED <<tasks, activeTimers, now, ticked, emitted, completions,
                    runSecs, asyncVars, patches, gatewayVars, clientTimers,
                    inbox, seen, sounds, issued>>

\* the service answers the card's GET of the timer status
ServeTimerStatus(k) ==
  LET c == calls[k]
      r == checkTimerStatus(tasks, activeTimers, c.taskId, ClientUser, now)
  IN /\ c.pc = "sent"
     /\ c.op = "status"
     /\ tasks' = r.tasks
     /\ activeTimers' = r.timers
     /\ emitted' = r.events
     /\ lastOp' = Op("status", c.taskId, ClientUser, r)
     /\ calls' = [calls EXCEPT ![k].pc = "answered", ![k].err = r.err,
                               ![k].result = r.result]
     /\ UNCHANGED <<now, ticked, completions, runSecs, asyncVars, patches,
                    gatewayVars, clientTimers, inbox, seen, sounds,
                    localRemainingTime, issued>>

\* checkServerStatus resumes from its await
CheckServerStatusReturns(k) ==
  LET c == calls[k]
  IN /\ c.pc = "answered"
     /\ c.op = "status"
     /\ sounds' = [sounds EXCEPT !.poll =
                     IF c.err = NoError /\ completionDue(c.result, c.status)
                     THEN @ + 1 ELSE @]
     /\ calls' = [calls EXCEPT ![k] = NoRequest]
     /\ lastOp' = ClientOp("checkServerStatus", c.taskId)
     /\ UNCHANGED <<tasks, activeTimers, now, ticked, emitted, completions,
                    runSecs, asyncVars, patches, gatewayVars, clientTimers,
                    inbox, seen, localRemainingTime, issued>>

NextClient ==
  \/ ClientClock
  \/ ClientTick
  \/ \E id \in TaskIds, operation \in TimerOperation :
       PerformTimerOperation(id, operation)
  \/ \E k \in 1..MaxClientCalls : ServeTimerOperation(k)
  \/ \E k \in 1..MaxClientCalls : RequestFails(k)
  \/ \E k \in 1..MaxClientCalls : PerformTimerOperationReturns(k)
  \/ \E k \in 1..MaxClientCalls : RefreshTimersReturns(k)
  \/ Receive
  \/ \E id \in TaskIds, both \in BOOLEAN : LocalTick(id, both)
  \/ \E k \in 1..MaxClientCalls : ServeTimerStatus(k)
  \/ \E k \in 1..MaxClientCalls : CheckServerStatusReturns(k)

SpecClient == InitClient /\ [][NextClient]_vars

\* the server and the channel keep running and the client's handlers resume;
\* what the user does, and whether a request is lost, is left open
SpecClientLive ==
  /\ SpecClient
  /\ WF_vars(ClientClock)
  /\ WF_vars(ClientTick)
  /\ WF_vars(Receive)
  /\ WF_vars(\E k \in 1..MaxClientCalls : ServeTimerOperation(k))
  /\ WF_vars(\E k \in 1..MaxClientCalls : PerformTimerOperationReturns(k))
  /\ WF_vars(\E k \in 1..MaxClientCalls : RefreshTimersReturns(k))

\* an update the client has handled arrives once more, after the run it
\* belongs to has ended on the server
Redeliver(m) ==
  /\ m \in seen
  /\ m.event = "timer:update"
  /\ tasks[m.data.taskId].timerStatus = COMPLETED
  /\ inbox = <<>>
  /\ inbox' = <<m>>
  /\ lastOp' = ClientOp("redeliver", m.data.taskId)
  /\ UNCHANGED <<tasks, activeTimers, now, ticked, emitted, completions,
                 runSecs, asyncVars, patches, gatewayVars, clientTimers, calls,
                 seen, sounds, localRemainingTime, issued>>

NextClientLate ==
  \/ ClientClock
  \/ ClientTick
  \/ \E id \in TaskIds, operation \in TimerOperation :
       PerformTimerOperation(id, operation)
  \/ \E k \in 1..MaxClientCalls : ServeTimerOperation(k)
  \/ \E k \in 1..MaxClientCalls : RequestFails(k)
  \/ \E k \in 1..MaxClientCalls : PerformTimerOperationReturns(k)
  \/ \E k \in 1..MaxClientCalls : RefreshTimersReturns(k)
  \/ Receive
  \/ \E m \in seen : Redeliver(m)

SpecClientLate == InitClient /\ [][NextClientLate]_vars

\* ------------------------------------------------------------------ claims
\* the step just taken was operation op on task id, asked by the task's owner
Did(op, id) ==
  /\ lastOp'.op = op
  /\ lastOp'.taskId = id
  /\ id \in DOMAIN tasks
  /\ lastOp'.userId = tasks[id].userId

Succeeded == lastOp'.err = NoError

\* the call threw a validation error and changed neither table nor registry
RejectedUnchanged ==
  /\ lastOp'.err = BadRequestException
  /\ tasks' = tasks
  /\ activeTimers' = activeTimers

\* C1: every operation that is valid in the current state leaves timerStatus
\* at the state of the transition table: Start from Idle -> Running; Pause
\* (Countdown, Running) -> Paused; Resume (Countdown, Paused) -> Running; Stop
\* (Running or Paused, either kind) -> Completed; Reset (any state) -> Idle.
C1_TransitionTable ==
  [][\A id \in TaskIds :
       /\ Did("start", id) /\ Succeeded /\ tasks[id].timerStatus = IDLE
            => tasks'[id].timerStatus = RUNNING
       /\ Did("pause", id) /\ tasks[id].timerType = COUNTDOWN
            /\ tasks[id].timerStatus = RUNNING
            => Succeeded /\ tasks'[id].timerStatus = PAUSED
       /\ Did("resume", id) /\ tasks[id].timerType = COUNTDOWN
            /\ tasks[id].timerStatus = PAUSED
            => Succeeded /\ tasks'[id].timerStatus = RUNNING
       /\ Did("stop", id) /\ tasks[id].timerStatus \in {RUNNING, PAUSED}
            => Succeeded /\ tasks'[id].timerStatus = COMPLETED
       /\ Did("reset", id)
            => Succeeded /\ tasks'[id].timerStatus = IDLE]_vars

C1_Witness ==
  /\ lastOp.op = "stop" /\ lastOp.err = NoError
  /\ tasks["t1"].timerType = ALARM
  /\ tasks["t1"].timerStatus = COMPLETED

\* C2: an invalid operation (Pause on an Alarm timer or when not Running,
\* Resume on an Alarm timer or when not Paused, Stop when Idle or Completed,
\* Start when already Running) throws a validation error and leaves the
\* persisted row and the registry as they were.
C2_InvalidRejected ==
  [][\A id \in TaskIds :
       /\ Did("pause", id)
            /\ (tasks[id].timerType = ALARM \/ tasks[id].timerStatus # RUNNING)
            => RejectedUnchanged
       /\ Did("resume", id)
            /\ (tasks[id].timerType = ALARM \/ tasks[id].timerStatus # PAUSED)
            => RejectedUnchanged
       /\ Did("stop", id) /\ tasks[id].timerStatus \in {IDLE, COMPLETED}
            => RejectedUnchanged
       /\ Did("start", id) /\ tasks[id].timerStatus = RUNNING
            => RejectedUnchanged]_vars

C2_Witness ==
  /\ lastOp.op = "pause" /\ lastOp.err = BadRequestException
  /\ tasks["t1"].timerType = COUNTDOWN
  /\ tasks["t1"].timerStatus = PAUSED
  /\ "t1" \in DOMAIN activeTimers

\* C3: Start succeeds only on an Idle row; on a Running, Paused or Completed
\* row it throws a validation error and changes neither row nor registry.
C3_StartOnlyFromIdle ==
  [][\A id \in TaskIds :
       Did("start", id) /\ tasks[id].timerStatus # IDLE
         => RejectedUnchanged]_vars

\* C4: Start on an Alarm timer succeeds only when alarmTime is set and
\* strictly greater than now; otherwise it throws and the row is unchanged.
C4_AlarmStrictlyFuture ==
  [][\A id \in TaskIds :
       Did("start", id) /\ tasks[id].timerType = ALARM
         => IF tasks[id].alarmTime # NULL /\ tasks[id].alarmTime > now
            THEN Succeeded => /\ tasks'[id].timerStatus = RUNNING
                              /\ tasks'[id].startedAt = now
            ELSE lastOp'.err = BadRequestException /\ tasks' = tasks]_vars

\* C5: the remainingTime persisted by a Pause is max(0, D - seconds spent
\* Running since Start), over any number of Pause/Resume cycles; Resume
\* carries the value over unchanged.
C5_PauseRemaining ==
  [][\A id \in TaskIds :
       /\ Did("pause", id) /\ Succeeded
            => tasks'[id].remainingTime
                 = Max(0, tasks[id].countdownDuration - runSecs[id])
       /\ Did("resume", id) /\ Succeeded
            => tasks'[id].remainingTime = tasks[id].remainingTime]_vars

\* a second Pause, after a Resume: one second Running in each period
C5_Witness ==
  /\ lastOp.op = "pause" /\ lastOp.err = NoError
  /\ tasks["t1"].countdownDuration = 3
  /\ runSecs["t1"] = 2
  /\ tasks["t1"].startedAt = 2
  /\ tasks["t1"].pausedAt = 3
  /\ tasks["t1"].remainingTime = 1

\* C6: the loop completes a Countdown timer at the first tick at which the
\* seconds it has spent Running since Start reach countdownDuration, and at
\* no earlier tick.
C6_CompletesWhenDue ==
  [][\A id \in TaskIds :
       /\ lastOp'.op = "tick"
       /\ id \in DOMAIN tasks
       /\ tasks[id].timerType = COUNTDOWN
       /\ tasks[id].timerStatus = RUNNING
       => (tasks'[id].timerStatus = COMPLETED
             <=> runSecs[id] >= tasks[id].countdownDuration)]_vars

\* C7: for each run of a timer, from the Start that made it Running until it
\* is Completed, at most one completion event is published, under every
\* interleaving of ticks, status queries and Stop requests.
C7_OneCompletionPerRun ==
  \A id \in TaskIds : completions[id] <= 1

\* C8: startedAt is non-null only while Running and pausedAt only while
\* Paused, so the two are never both set and a Completed row has neither.
C8_Timestamps ==
  \A id \in DOMAIN tasks :
    /\ tasks[id].startedAt # NULL => tasks[id].timerStatus = RUNNING
    /\ tasks[id].pausedAt # NULL => tasks[id].timerStatus = PAUSED

\* C9: isCompleted is true exactly when timerStatus is Completed.
C9_IsCompletedIffCompleted ==
  \A id \in DOMAIN tasks :
    tasks[id].isCompleted <=> tasks[id].timerStatus = COMPLETED

\* C10: Reset in any state succeeds and leaves the row Idle with startedAt and
\* pausedAt null and isCompleted false, remainingTime = countdownDuration for
\* a Countdown timer, alarmTime untouched for an Alarm timer, and no registry
\* entry for the task.
C10_Reset ==
  [][\A id \in TaskIds :
       Did("reset", id)
         => /\ Succeeded
            /\ tasks'[id].timerStatus = IDLE
            /\ tasks'[id].startedAt = NULL
            /\ tasks'[id].pausedAt = NULL
            /\ tasks'[id].isCompleted = FALSE
            /\ tasks[id].timerType = COUNTDOWN
                 => tasks'[id].remainingTime = tasks[id].countdownDuration
            /\ tasks[id].timerType = ALARM
                 => tasks'[id].alarmTime = tasks[id].alarmTime
            /\ id \notin DOMAIN activeTimers']_vars

\* Reset of a paused countdown that had run for a second
C10_Witness ==
  /\ lastOp.op = "reset" /\ lastOp.err = NoError
  /\ tasks["t1"].timerType = COUNTDOWN
  /\ tasks["t1"].countdownDuration = 3
  /\ tasks["t1"].remainingTime = 3
  /\ tasks["t1"].timerStatus = IDLE
  /\ runSecs["t1"] = 1
  /\ "t1" \notin DOMAIN activeTimers

\* C11: no timer operation, tick or status query changes a row's id, userId,
\* timerType, countdownDuration or alarmTime.
C11_ConfigurationFrame ==
  [][\A id \in DOMAIN tasks :
       /\ id \in DOMAIN tasks'
       /\ tasks'[id].userId = tasks[id].userId
       /\ tasks'[id].timerType = tasks[id].timerType
       /\ tasks'[id].countdownDuration = tasks[id].countdownDuration
       /\ tasks'[id].alarmTime = tasks[id].alarmTime]_vars

\* a countdown the loop has just completed
C11_Witness ==
  /\ lastOp.op = "tick"
  /\ CompletedEvents(emitted, "t1") # {}
  /\ tasks["t1"].timerStatus = COMPLETED
  /\ tasks["t1"].timerType = COUNTDOWN
  /\ tasks["t1"].countdownDuration = 2
  /\ tasks["t1"].userId = "u1"

\* C12: once a timer has left Idle, no request, the record update included,
\* changes its timerType.
C12_KindFixedOnceStarted ==
  [][\A id \in DOMAIN tasks :
       tasks[id].timerStatus # IDLE /\ id \in DOMAIN tasks'
         => tasks'[id].timerType = tasks[id].timerType]_vars

\* C13: with no call in progress, a task has a registry entry exactly when its
\* persisted timerStatus is Running or Paused.
C13_RegistryIffLive ==
  \A id \in DOMAIN tasks :
    id \in DOMAIN activeTimers <=> tasks[id].timerStatus \in {RUNNING, PAUSED}

\* C14: a routine update published by a tick for a Running Countdown timer
\* carries max(0, R - e): R the remaining time at the start of the current
\* Running period (the persisted remainingTime), e the seconds since startedAt.
C14_UpdateRemaining ==
  \A e \in emitted :
    /\ e.type = "timer.update"
    /\ e.taskId \in DOMAIN tasks
    /\ tasks[e.taskId].timerType = COUNTDOWN
    /\ tasks[e.taskId].timerStatus = RUNNING
    => e.remainingTime
         = Max(0, tasks[e.taskId].remainingTime - (now - tasks[e.taskId].startedAt))

\* C15: a status query on a Running Countdown timer returns max(0, R - e)
\* computed at query time, and on a Paused timer the stored remainingTime.
C15_StatusRemaining ==
  [][\A id \in TaskIds :
       Did("status", id) /\ tasks[id].timerType = COUNTDOWN
         => /\ tasks[id].timerStatus = RUNNING
                => lastOp'.result.remainingTime
                     = Max(0, tasks[id].remainingTime - (now - tasks[id].startedAt))
            /\ tasks[id].timerStatus = PAUSED
                => lastOp'.result.remainingTime = tasks[id].remainingTime]_vars

\* C16: a Running Alarm timer stays Running through every tick with
\* now < alarmTime, each publishing an update with status Running and no
\* remaining time, and is Completed at the first tick with now >= alarmTime.
C16_AlarmCompletion ==
  [][\A id \in TaskIds :
       /\ lastOp'.op = "tick"
       /\ id \in DOMAIN tasks
       /\ tasks[id].timerType = ALARM
       /\ tasks[id].timerStatus = RUNNING
       => IF now < tasks[id].alarmTime
          THEN /\ tasks'[id].timerStatus = RUNNING
               /\ CompletedEvents(emitted', id) = {}
               /\ \E e \in emitted' :
                    /\ e.type = "timer.update" /\ e.taskId = id
                    /\ e.status = RUNNING /\ e.remainingTime = NULL
          ELSE /\ tasks'[id].timerStatus = COMPLETED
               /\ CompletedEvents(emitted', id) # {}]_vars

\* an alarm set three seconds after its Start, completed by the third tick
C16_Witness ==
  /\ lastOp.op = "tick"
  /\ tasks["t1"].timerType = ALARM
  /\ tasks["t1"].timerStatus = COMPLETED
  /\ tasks["t1"].startedAt = 0
  /\ tasks["t1"].alarmTime = 3
  /\ now = 3
  /\ completions["t1"] = 1

\* C17: a Running timer that falls due within the horizon and is not paused,
\* stopped or reset ceases to be Running: the loop completes it.
C17_RunningCompletes ==
  \A id \in TaskIds :
    (/\ tasks[id].timerStatus = RUNNING
     /\ \/ /\ tasks[id].timerType = COUNTDOWN
           /\ tasks[id].countdownDuration >= 1
           /\ tasks[id].remainingTime >= 1
           /\ tasks[id].startedAt + tasks[id].remainingTime <= MaxNow
        \/ /\ tasks[id].timerType = ALARM
           /\ tasks[id].alarmTime # NULL
           /\ tasks[id].alarmTime <= MaxNow)
    ~> (tasks[id].timerStatus # RUNNING)

\* C18: once the loop has persisted a completion and published its event, a
\* Pause that was racing with it does not leave the row Paused.
C18_NoPauseAfterCompletion ==
  [][\A id \in DOMAIN tasks :
       /\ tasks[id].timerStatus = COMPLETED
       /\ completions[id] >= 1
       /\ id \in DOMAIN tasks'
       => tasks'[id].timerStatus # PAUSED]_vars

\* C19: every completion event, from the loop or from Stop, carries the
\* userId of the task's owner.
C19_CompletionOwner ==
  \A e \in emitted :
    e.type = "timer.completed" /\ e.taskId \in DOMAIN tasks
      => e.userId = tasks[e.taskId].userId

\* C20: one completion event for a user with n registered connections
\* delivers exactly n 'timer:update' messages and n 'notification' messages,
\* one of each to every connection of that user (none, without error, for
\* n = 0), and nothing to a connection registered under another user.
C20_CompletionDelivery ==
  lastOp.op = "timer.completed" =>
    LET mine == socketIdsOf(userSockets, lastOp.userId)
        n == Len(mine)
        sent(event) == SelectSeq(delivered, LAMBDA m : m.event = event)
    IN /\ Len(delivered) = 2 * n
       /\ Len(sent("timer:update")) = n
       /\ Len(sent("notification")) = n
       /\ \A i \in 1..n :
            /\ sent("timer:update")[i].to = mine[i]
            /\ sent("notification")[i].to = mine[i]
       /\ \A i \in DOMAIN delivered :
            /\ delivered[i].data.taskId = lastOp.taskId
            /\ \A u \in DOMAIN userSockets \ {lastOp.userId} :
                 \A j \in DOMAIN userSockets[u] :
                   delivered[i].to # userSockets[u][j]

\* three connections of u1 and one of u2, and a completion event for u1
C20_Witness ==
  /\ lastOp.op = "timer.completed"
  /\ lastOp.userId = "u1"
  /\ Len(socketIdsOf(userSockets, "u1")) = 3
  /\ Len(socketIdsOf(userSockets, "u2")) = 1
  /\ Len(delivered) = 6

\* C20 as stated: exactly n messages for n connections
C20_OneMessagePerConnection ==
  lastOp.op = "timer.completed" =>
    Len(delivered) = Len(socketIdsOf(userSockets, lastOp.userId))

\* the socket ids registered in the gateway's map, under any user
RegisteredIds ==
  UNION {{userSockets[u][i] : i \in DOMAIN userSockets[u]}
           : u \in DOMAIN userSockets}

\* C21: a connection whose handshake carried no token, or a token that failed
\* verification, is disconnected, is in no user's socket id list, and is the
\* target of no timer update or notification.
C21_UnauthenticatedRefused ==
  \A cid \in DOMAIN clients :
    clients[cid].userId = "none" =>
      /\ ~clients[cid].connected
      /\ cid \notin RegisteredIds
      /\ \A i \in DOMAIN delivered : delivered[i].to # cid

\* a refused socket, then a socket of u1, and a completion event for u1
C21_Witness ==
  /\ Len(clients) >= 2
  /\ clients[1].userId = "none"
  /\ clients[2] = Socket("u1", TRUE)
  /\ lastOp.op = "timer.completed"
  /\ lastOp.userId = "u1"
  /\ Len(delivered) = 2

\* C22: the map holds exactly the open authenticated socket ids, each once
\* and under the user of its handshake; no user has an empty list; no
\* message goes to a socket that has disconnected.
C22_MapIsOpenConnections ==
  /\ \A u \in DOMAIN userSockets :
       /\ userSockets[u] # <<>>
       /\ \A i, j \in DOMAIN userSockets[u] :
            userSockets[u][i] = userSockets[u][j] => i = j
       /\ \A i \in DOMAIN userSockets[u] :
            /\ userSockets[u][i] \in DOMAIN clients
            /\ clients[userSockets[u][i]] = Socket(u, TRUE)
  /\ \A cid \in DOMAIN clients :
       clients[cid].connected =>
         /\ clients[cid].userId \in DOMAIN userSockets
         /\ \E i \in DOMAIN userSockets[clients[cid].userId] :
              userSockets[clients[cid].userId][i] = cid
  /\ \A i \in DOMAIN delivered : clients[delivered[i].to].connected

\* the last socket of u1 has closed while u2 still has one open
C22_Witness ==
  /\ lastOp.op = "disconnect"
  /\ lastOp.userId = "u1"
  /\ "u1" \notin DOMAIN userSockets
  /\ "u2" \in DOMAIN userSockets
  /\ \E cid \in DOMAIN clients : clients[cid] = Socket("u1", FALSE)

C24_ForeignIsNotFound ==
  [][\A id \in DOMAIN tasks, u \in UserIds :
       /\ lastOp'.op \in TimerOperation \cup {"status"}
       /\ lastOp'.taskId = id
       /\ lastOp'.userId = u
       /\ tasks[id].userId # u
       => /\ lastOp'.err = NotFoundException
          /\ tasks' = tasks
          /\ activeTimers' = activeTimers
          /\ emitted' = {}
          /\ LET absent ==
                   IF lastOp'.op = "status"
                   THEN checkTimerStatus(mapDelete(tasks, id),
                                         mapDelete(activeTimers, id), id, u, now)
                   ELSE handleTimerOperation(mapDelete(tasks, id),
                                             mapDelete(activeTimers, id),
                                             id, u, lastOp'.op, now)
             IN /\ lastOp' = Op(lastOp'.op, id, u, absent)
                /\ absent.events = emitted'
                /\ absent.tasks = mapDelete(tasks, id)
                /\ absent.timers = mapDelete(activeTimers, id)]_vars

\* u2 has asked to pause the running timer of u1
C24_Witness ==
  /\ lastOp.op = "pause"
  /\ lastOp.userId = "u2"
  /\ lastOp.err = NotFoundException
  /\ tasks["t1"].userId = "u1"
  /\ tasks["t1"].timerStatus = RUNNING
  /\ "t1" \in DOMAIN activeTimers

\* the request that the step hands to performTimerOperation's continuation
Resumed(k) == calls[k].pc = "answered" /\ calls'[k] # calls[k]

\* C25: issuing an operation sets the entry's status to the operation's
\* expected result and marks it pending; when the operation fails and the
\* entry is still pending, the entry becomes the snapshot taken at issue with
\* isPending false and no pendingOperation, and when the entry is no longer
\* pending the failure leaves it as it is.
C25_OptimisticAndRollback ==
  [][\A id \in TaskIds, k \in 1..MaxClientCalls :
       /\ lastOp'.op = "performTimerOperation" /\ lastOp'.taskId = id
          /\ calls[k].pc = "idle" /\ calls'[k].pc = "sent"
          => /\ clientTimers'[id].status = mapOperationToStatus(calls'[k].op)
             /\ clientTimers'[id].isPending
             /\ clientTimers'[id].pendingOperation = calls'[k].op
             /\ calls'[k].currentTimer = clientTimers[id]
       /\ lastOp'.op = "operationFailed" /\ lastOp'.taskId = id /\ Resumed(k)
          /\ id \in DOMAIN clientTimers
          => IF clientTimers[id].isPending
             THEN clientTimers'[id] =
                    [calls[k].currentTimer EXCEPT !.isPending = FALSE,
                                                  !.pendingOperation = "none"]
             ELSE clientTimers'[id] = clientTimers[id]]_vars

\* a Pause failed after the completion notification had cleared the pending
\* flag: the entry stays Completed
C25_Witness ==
  /\ lastOp.op = "operationFailed"
  /\ issued >= 1
  /\ sounds.notification >= 1
  /\ CardTask \in DOMAIN clientTimers
  /\ clientTimers[CardTask].status = COMPLETED
  /\ ~clientTimers[CardTask].isPending
  /\ \E k \in 1..MaxClientCalls : calls[k].op = "refresh"

\* C25 as stated: a failed operation always restores the snapshot
C25_FailureRestoresSnapshot ==
  [][\A id \in TaskIds, k \in 1..MaxClientCalls :
       /\ lastOp'.op = "operationFailed" /\ lastOp'.taskId = id /\ Resumed(k)
       /\ id \in DOMAIN clientTimers
       => clientTimers'[id] =
            [calls[k].currentTimer EXCEPT !.isPending = FALSE,
                                          !.pendingOperation = "none"]]_vars

\* C26: while an entry is pending, a pushed update with another status than
\* the one the pending operation expects leaves the entry as it is, and a
\* pushed update with the expected status is applied to it.
C26_PendingGuard ==
  [][\A id \in DOMAIN clientTimers :
       /\ lastOp'.op = "handleTimerUpdate" /\ lastOp'.taskId = id
       /\ clientTimers[id].isPending
       => IF Head(inbox).data.status
               # mapOperationToStatus(clientTimers[id].pendingOperation)
          THEN clientTimers'[id] = clientTimers[id]
          ELSE /\ clientTimers'[id].status = Head(inbox).data.status
               /\ clientTimers'[id].remainingTime
                    = field(Head(inbox).data, "remainingTime")
               /\ ~clientTimers'[id].isPending]_vars

\* C27: once an operation has succeeded on the server, the entry that it left
\* pending ceases to be pending. The operation is taken early enough for the
\* server's ticks to fall within the horizon.
C27_PendingClears ==
  \A id \in TaskIds :
    (/\ id \in DOMAIN clientTimers
     /\ clientTimers[id].isPending
     /\ now + 2 < MaxNowClient
     /\ \E k \in 1..MaxClientCalls :
          /\ calls[k].pc = "answered"
          /\ calls[k].op \in TimerOperation
          /\ calls[k].taskId = id
          /\ calls[k].err = NoError)
    ~> (id \in DOMAIN clientTimers /\ ~clientTimers[id].isPending)

\* the data of the 'timer:update' messages the gateway sends
UpdateData ==
  {withTaskId([status |-> st, remainingTime |-> r, completed |-> c], id)
     : st \in {IDLE, RUNNING, PAUSED, COMPLETED}, r \in {NULL, 0, 1, 2},
       c \in BOOLEAN, id \in TaskIds}
  \cup {withTaskId([taskId |-> id, status |-> "COMPLETED", completed |-> TRUE],
                   id) : id \in TaskIds}

\* an entry without its lastUpdated
content(entry) ==
  [status |-> entry.status, remainingTime |-> entry.remainingTime,
   isCompleted |-> entry.isCompleted, isPending |-> entry.isPending,
   pendingOperation |-> entry.pendingOperation]

\* C28: applying one timer update twice in a row leaves every entry with the
\* status, remainingTime, isCompleted, isPending and pendingOperation that
\* applying it once does, pending or not, in the cache or not.
C28_UpdateIdempotent ==
  \A data \in UpdateData :
    LET once == handleTimerUpdate(clientTimers, data, now)
        twice == handleTimerUpdate(once, data, now + 1)
    IN /\ DOMAIN twice = DOMAIN once
       /\ \A id \in DOMAIN once : content(twice[id]) = content(once[id])

\* an update has just added the task to an empty cache
C28_Witness ==
  /\ lastOp.op = "handleTimerUpdate"
  /\ DOMAIN clientTimers = {CardTask}
  /\ clientTimers[CardTask].status = RUNNING
  /\ ~clientTimers[CardTask].isPending
  /\ \E k \in 1..MaxClientCalls : calls[k].op = "refresh"

\* C29: an entry that a completion notification has set to Completed is not
\* moved back to Running by a Running update of the same run that arrives
\* afterwards.
C29_CompletedStays ==
  [][\A id \in DOMAIN clientTimers :
       /\ lastOp'.op = "handleTimerUpdate" /\ lastOp'.taskId = id
       /\ Head(inbox) \in seen
       /\ Head(inbox).data.status = RUNNING
       /\ clientTimers[id].status = COMPLETED
       /\ sounds.notification >= 1
       /\ tasks[id].timerStatus = COMPLETED
       => clientTimers'[id].status # RUNNING]_vars

activeRows(store) ==
  {id \in DOMAIN store : store[id].timerStatus \in {RUNNING, PAUSED}}

\* loadActiveTimers into the empty registry of a new process
loadActiveTimers(store) ==
  LET RECURSIVE load(_, _)
      load(ids, timers) ==
        IF ids = {} THEN timers
        ELSE LET id == CHOOSE x \in ids : TRUE
             IN load(ids \ {id}, registerActiveTimer(timers, id, store[id]))
  IN load(activeRows(store), [id \in {} |-> NULL])

\* onModuleDestroy, the end of the process with its registry, and
\* onModuleInit of the next: the first callback of the new interval is due a
\* second later
Restart ==
  /\ activeTimers' = loadActiveTimers(tasks)
  /\ ticked' = TRUE
  /\ lastOp' = [op |-> "restart", taskId |-> "none", userId |-> "none",
                err |-> NoError, result |-> NoResult]
  /\ emitted' = {}
  /\ UNCHANGED <<patches, gatewayVars, clientVars, tasks, now, completions,
                 runSecs, asyncVars>>

NextRestart ==
  \/ AdvanceClock
  \/ CheckActiveTimers
  \/ \E id \in TaskIds, u \in UserIds, op \in TimerOperation :
       HandleTimerOperation(id, u, op)
  \/ \E id \in TaskIds, u \in UserIds : CheckTimerStatus(id, u)
  \/ Restart

SpecRestart == Init /\ [][NextRestart]_vars

\* C31: a restart leaves the table as it is and rebuilds the registry with
\* exactly one entry for each row whose timerStatus is Running or Paused, the
\* entry of a Paused row marked paused and that of a Running row not.
C31_RegistryReloaded ==
  [][lastOp'.op = "restart"
     => /\ tasks' = tasks
        /\ DOMAIN activeTimers' = activeRows(tasks)
        /\ \A id \in DOMAIN activeTimers' :
             (activeTimers'[id].pausedAt # NULL)
               <=> (tasks[id].timerStatus = PAUSED)]_vars

\* the part of C31 that does not depend on how a row came to be Running
C31_EntriesAreActiveRows ==
  [][lastOp'.op = "restart"
     => /\ tasks' = tasks
        /\ DOMAIN activeTimers' = activeRows(tasks)]_vars

\* --------------------------------- the machine, with a failing repository
\* two tasks of one user, and repository calls that reject; the second task
\* is only ever started
FaultIds == {"t1", "t2"}

FaultConfigs ==
  {NewTask("u1", COUNTDOWN, d, NULL) : d \in 1..MaxDurationFaulty}
    \cup {NewTask("u1", ALARM, NULL, 1)}

\* the error of a rejected repository call as the request reports it
InternalServerError == "InternalServerError"

\* removes the entry of a due timer before its row is saved
checkActiveTimersDeleteFirst(store, timers, t, broken) ==
  LET advanced == loopAdvanced(timers, t)
      due == loopCompleted(timers, t) \cap DOMAIN store
      found == due \ broken
      store2 == [id \in DOMAIN store |->
                   IF id \in found THEN completedRow(store[id]) ELSE store[id]]
      timers2 == [id \in DOMAIN timers \ due |-> advanced[id]]
      updates == UNION {emitTimerUpdate(store, advanced, id, timers[id].userId, t)
                          : id \in loopUpdated(timers, t) \ broken}
      done == {CompletedEvent(id, store[id].userId) : id \in found}
  IN Reply(NoError, store2, timers2, updates \cup done, NoResult)

\* gives the tick up at the first repository call that rejects
checkActiveTimersAborting(store, timers, t, broken) ==
  IF broken \cap DOMAIN timers = {}
  THEN checkActiveTimers(store, timers, t)
  ELSE Reply(NoError, store, loopAdvanced(timers, t), {}, NoResult)

\* one run of the interval callback in which the repository calls for the
\* ids of `broken` reject: completeTimer and emitTimerUpdate each catch the
\* rejection of their own call and return
checkActiveTimersBroken(store, timers, t, broken) ==
  LET advanced == loopAdvanced(timers, t)
      found == (loopCompleted(timers, t) \cap DOMAIN store) \ broken
      store2 == [id \in DOMAIN store |->
                   IF id \in found THEN completedRow(store[id]) ELSE store[id]]
      timers2 == [id \in DOMAIN timers \ found |-> advanced[id]]
      updates == UNION {emitTimerUpdate(store, advanced, id, timers[id].userId, t)
                          : id \in loopUpdated(timers, t) \ broken}
      done == {CompletedEvent(id, store[id].userId) : id \in found}
  IN Reply(NoError, store2, timers2, updates \cup done, NoResult)

\* one timer operation whose `save` rejects when `fails`: startTimer awaits
\* the save and throws before it registers; the other four have changed the
\* registry, and stopTimer has emitted, by the time the rejection surfaces as
\* the result of the request
handleTimerOperationBroken(store, timers, id, u, op, t, fails) ==
  IF ~fails THEN handleTimerOperation(store, timers, id, u, op, t)
  ELSE IF ~findOneOwned(store, id, u)
  THEN Reply(NotFoundException, store, timers, {}, NoResult)
  ELSE LET r == dispatch(op, id, store[id], timers, t)
       IN IF r.err # NoError
          THEN Reply(r.err, store, timers, {}, NoResult)
          ELSE IF op = "start"
          THEN Reply(InternalServerError, store, timers, {}, NoResult)
          ELSE Reply(InternalServerError, store, r.timers, r.events, NoResult)

InitFaulty ==
  /\ tasks \in [FaultIds -> FaultConfigs]
  /\ activeTimers = [id \in {} |-> NULL]
  /\ now = 0
  /\ ticked = TRUE
  /\ lastOp = [op |-> "init", taskId |-> "none", userId |-> "none",
               err |-> NoError, result |-> NoResult, broken |-> {}]
  /\ emitted = {}
  /\ completions = [id \in TaskIds |-> 0]
  /\ runSecs = [id \in TaskIds |-> 0]
  /\ inflight = [k \in 1..MaxRequests |-> NoCall]
  /\ completing = [k \in 1..MaxCallbacks |-> NoCall]
  /\ updating = {}
  /\ patches = 0
  /\ clients = <<>>
  /\ userSockets = [u \in {} |-> <<>>]
  /\ delivered = <<>>
  /\ failing = {}
  /\ clientTimers = [id \in {} |-> NULL]
  /\ calls = [k \in 1..MaxClientCalls |-> NoRequest]
  /\ inbox = <<>>
  /\ seen = {}
  /\ sounds = [notification |-> 0, poll |-> 0]
  /\ localRemainingTime = NULL
  /\ issued = 0

\* a second passes
ClockFaulty ==
  /\ ticked
  /\ now < MaxNowFaulty
  /\ now' = now + 1
  /\ ticked' = FALSE
  /\ lastOp' = [op |-> "clock", taskId |-> "none", userId |-> "none",
                err |-> NoError, result |-> NoResult, broken |-> {}]
  /\ emitted' = {}
  /\ UNCHANGED <<patches, gatewayVars, clientVars, tasks, activeTimers,
                 completions, runSecs, asyncVars>>

\* the setInterval callback of this second, during which the repository
\* rejects the calls for the ids of `broken`
CheckActiveTimersBroken(broken) ==
  LET r == checkActiveTimersBroken(tasks, activeTimers, now, broken)
  IN /\ ~ticked
     /\ ticked' = TRUE
     /\ tasks' = r.tasks
     /\ activeTimers' = r.timers
     /\ emitted' = r.events
     /\ lastOp' = [op |-> "tick", taskId |-> "none", userId |-> "none",
                   err |-> r.err, result |-> r.result, broken |-> broken]
     /\ UNCHANGED <<patches, gatewayVars, clientVars, now, completions,
                    runSecs, asyncVars>>

\* POST /tasks/timer by the owner, with a `save` that rejects when `fails`
HandleTimerOperationBroken(id, op, fails) ==
  LET u == tasks[id].userId
      r == handleTimerOperationBroken(tasks, activeTimers, id, u, op, now,
                                      fails)
  IN /\ fails => r.err = InternalServerError
     /\ tasks' = r.tasks
     /\ activeTimers' = r.timers
     /\ emitted' = r.events
     /\ lastOp' = [op |-> op, taskId |-> id, userId |-> u, err |-> r.err,
                   result |-> r.result, broken |-> {}]
     /\ UNCHANGED <<patches, gatewayVars, clientVars, now, ticked, completions,
                    runSecs, asyncVars>>

NextFaulty ==
  \/ ClockFaulty
  \/ \E broken \in SUBSET FaultIds : CheckActiveTimersBroken(broken)
  \/ \E op \in TimerOperation, fails \in BOOLEAN :
       HandleTimerOperationBroken("t1", op, fails)
  \/ HandleTimerOperationBroken("t2", "start", FALSE)

SpecFaulty == InitFaulty /\ [][NextFaulty]_vars

\* C32: in a tick of the loop, for every registered timer, either the row is
\* saved Completed with isCompleted true, the entry is gone and exactly one
\* timer.completed event is published (which the gateway turns into a state
\* patch with completed true and a TIMER_COMPLETED notification for the task),
\* or none of the three happens. The first is the case of a due timer whose
\* save succeeds; when the save rejects the entry stays and is due again at
\* the next tick.
C32_CompletionAllOrNothing ==
  [][lastOp'.op = "tick"
     => \A id \in DOMAIN activeTimers :
          LET due == id \in loopCompleted(activeTimers, now)
              all == /\ tasks'[id] = completedRow(tasks[id])
                     /\ tasks'[id].timerStatus = COMPLETED
                     /\ tasks'[id].isCompleted
                     /\ id \notin DOMAIN activeTimers'
                     /\ CompletedEvents(emitted', id)
                          = {CompletedEvent(id, tasks[id].userId)}
                     /\ \A e \in CompletedEvents(emitted', id) :
                          LET sent == handleTimerCompletedEvent(
                                        [u \in {e.userId} |-> <<1>>], e)
                          IN /\ Len(sent) = 2
                             /\ sent[1].event = "timer:update"
                             /\ sent[1].data.completed
                             /\ sent[1].data.taskId = id
                             /\ sent[2].event = "notification"
                             /\ sent[2].data.type = "TIMER_COMPLETED"
                             /\ sent[2].data.taskId = id
              none == /\ tasks'[id] = tasks[id]
                      /\ id \in DOMAIN activeTimers'
                      /\ CompletedEvents(emitted', id) = {}
          IN /\ due /\ id \notin lastOp'.broken => all
             /\ due /\ id \in lastOp'.broken
                  => /\ none
                     /\ isDue(advanceTimer(activeTimers'[id], now + 1), now + 1)
             /\ ~due => none]_vars

\* a countdown of one second started at 0 is completed by the tick of second
\* 2, the save of the tick of second 1 having been rejected
C32_Witness ==
  /\ lastOp.op = "tick"
  /\ lastOp.broken = {}
  /\ now = 2
  /\ tasks["t1"].timerType = COUNTDOWN
  /\ tasks["t1"].countdownDuration = 1
  /\ tasks["t1"].startedAt = 0
  /\ tasks["t1"].timerStatus = COMPLETED
  /\ CompletedEvents(emitted, "t1") # {}
  /\ "t1" \notin DOMAIN activeTimers

\* the events of a step that are about one task
EventsOf(events, id) == {e \in events : e.taskId = id}

\* C35: when the repository rejects the calls for some entries during a tick,
\* the callback still returns normally and every other entry is advanced,
\* completed and reported exactly as in a tick without any rejection.
C35_FailureDoesNotStopTick ==
  [][lastOp'.op = "tick"
     => LET r == checkActiveTimers(tasks, activeTimers, now)
        IN /\ lastOp'.err = NoError
           /\ ticked'
           /\ \A id \in DOMAIN activeTimers \ lastOp'.broken :
                /\ tasks'[id] = r.tasks[id]
                /\ (id \in DOMAIN activeTimers') = (id \in DOMAIN r.timers)
                /\ id \in DOMAIN r.timers
                     => activeTimers'[id] = r.timers[id]
                /\ EventsOf(emitted', id) = EventsOf(r.events, id)]_vars

\* in one tick the save for t1, which is due, was rejected, and t2 was
\* completed all the same
C35_Witness ==
  /\ lastOp.op = "tick"
  /\ lastOp.broken = {"t1"}
  /\ "t1" \in DOMAIN activeTimers
  /\ isDue(activeTimers["t1"], now)
  /\ tasks["t1"].timerStatus = RUNNING
  /\ "t2" \notin DOMAIN activeTimers
  /\ tasks["t2"].timerStatus = COMPLETED
  /\ CompletedEvents(emitted, "t2") # {}
  /\ CompletedEvents(emitted, "t1") = {}

\* C36: a Pause, Resume, Stop or Reset whose save is rejected leaves the
\* registry as it was and publishes no completion event; every completion
\* event is for a task whose saved row is Completed.
C36_RegistryFollowsStore ==
  [][/\ lastOp'.op \in {"pause", "resume", "stop", "reset"}
        /\ lastOp'.err = InternalServerError
        => /\ activeTimers' = activeTimers
           /\ \A id \in DOMAIN tasks : CompletedEvents(emitted', id) = {}
     /\ \A id \in DOMAIN tasks :
          CompletedEvents(emitted', id) # {}
            => tasks'[id].timerStatus = COMPLETED]_vars

\* a remaining time that is absent, or not negative (NULL is below zero)
NotNegative(v) == v = NULL \/ v >= 0

C34_PausedUntouched ==
  [][lastOp'.op = "tick"
     => \A id \in DOMAIN activeTimers :
          activeTimers[id].pausedAt # NULL
            => /\ id \in DOMAIN activeTimers'
               /\ activeTimers'[id] = activeTimers[id]
               /\ tasks'[id] = tasks[id]
               /\ \A e \in emitted' : e.taskId # id]_vars

\* a tick has run two seconds after a countdown was paused with time left
C34_Witness ==
  /\ lastOp.op = "tick"
  /\ \E id \in DOMAIN activeTimers :
       /\ activeTimers[id].pausedAt # NULL
       /\ activeTimers[id].pausedAt + 2 <= now
       /\ activeTimers[id].remainingTime > 0
       /\ tasks[id].timerStatus = PAUSED
       /\ tasks[id].remainingTime = activeTimers[id].remainingTime

\* C37: a row that a Reset has returned to Idle is not set to Completed, and
\* no completion event is published for it, by a completeTimer that was in
\* flight when the Reset ran; from Idle the row only leaves through a Start.
C37_ResetIsFinal ==
  [][\A id \in DOMAIN tasks :
       /\ tasks[id].timerStatus = IDLE
       /\ lastOp'.op = "completeTimer"
       /\ lastOp'.taskId = id
       => /\ tasks'[id].timerStatus # COMPLETED
          /\ CompletedEvents(emitted', id) = {}]_vars

\* the values of TimerStatus, on the server and on the client
TimerStatuses == {IDLE, RUNNING, PAUSED, COMPLETED}

\* C38: the status of every timer:update message the gateway delivers, tick
\* update or completion patch, is one of the four TimerStatus values.
C38_StatusIsTimerStatus ==
  \A i \in 1..Len(delivered) :
    delivered[i].event = "timer:update"
      => delivered[i].data.status \in TimerStatuses

\* ------------------------------------------------ the machine, with DELETE
\* remove: findOne for the user, then delete({ id, userId }); the registry is
\* not consulted
remove(store, timers, id, u) ==
  IF ~findOneOwned(store, id, u)
  THEN Reply(NotFoundException, store, timers, {}, NoResult)
  ELSE Reply(NoError, mapDelete(store, id), timers, {}, NoResult)

\* DELETE /tasks/:id
Remove(id, u) ==
  LET r == remove(tasks, activeTimers, id, u)
  IN /\ tasks' = r.tasks
     /\ activeTimers' = r.timers
     /\ emitted' = r.events
     /\ lastOp' = Op("remove", id, u, r)
     /\ UNCHANGED <<patches, gatewayVars, clientVars, now, ticked, completions,
                    runSecs, asyncVars>>

NextRemove ==
  \/ AdvanceClock
  \/ CheckActiveTimers
  \/ \E id \in TaskIds, u \in UserIds, op \in TimerOperation :
       HandleTimerOperation(id, u, op)
  \/ \E id \in TaskIds, u \in UserIds : CheckTimerStatus(id, u)
  \/ \E id \in TaskIds, u \in UserIds : Remove(id, u)

SpecRemove == Init /\ [][NextRemove]_vars

\* the interval keeps firing and the clock keeps running
SpecRemoveLive ==
  SpecRemove /\ WF_vars(AdvanceClock) /\ WF_vars(CheckActiveTimers)

\* C39: the registry entry of a task that has been deleted is eventually
\* removed. The deletion is taken early enough for two more ticks to follow.
C39_EntryOfDeletedTaskGoes ==
  \A id \in TaskIds :
    (id \in DOMAIN activeTimers /\ id \notin DOMAIN tasks /\ now + 2 <= MaxNow)
      ~> (id \notin DOMAIN activeTimers)

====
